---- MODULE Spec2Model ----
(***************************************************************************)
(* A model of the ramp-agent backend: the local sandbox's path checks      *)
(* (sandbox/local.py), the agent executor loop (agents/base.py) with its   *)
(* nested sub-agents (agents/agent.py), and the session/run controller     *)
(* (orchestrator.py, routes/sessions.py) with the event bus (events.py)    *)
(* and the event stream (routes/events.py); the tool handlers run_command  *)
(* of the verifier (agents/verifier.py), create_pr and commit_and_push     *)
(* (tools/github.py) and delete_file (agents/implementer.py); the parsing  *)
(* of the final text (agents/base.py); and the two sandbox backends        *)
(* (sandbox/local.py, sandbox/modal_provider.py).                          *)
(*                                                                         *)
(* Twelve specifications share the module:                                 *)
(*   PathSpec   the sandbox file operations on arbitrary path arguments    *)
(*   VerifierSpec  the verifier's run_command on arbitrary commands        *)
(*   GhSpec     create_pr under every outcome of its commands              *)
(*   BackendSpec  both backends' file operations and run_command           *)
(*   DeleteSpec the two delete_file handlers on arbitrary paths            *)
(*   BusSpec    the EventBus with several sessions and subscribers         *)
(*   ParseSpec  _parse_output on arbitrary final texts                     *)
(*   CommitSpec commit_and_push on arbitrary commit messages, under every  *)
(*              outcome of its commands                                    *)
(*   ResumeSpec resume() on arbitrary conversation histories               *)
(*   AgentSpec  one orchestrator agent invocation chain (run, resume) with *)
(*              nested sub-agent invocations                               *)
(*   Spec       the controller: run / follow-up tasks, stop requests and   *)
(*              the durable store                                          *)
(*   StreamSpec the controller with one run, follow-up and stop, the event *)
(*              bus and a client of the event stream                       *)
(***************************************************************************)
EXTENDS Integers, Sequences, FiniteSets, TLC

VARIABLES
    \* ---- sandbox/local.py: the last file operation and what it did
    fsCall,      \* [op, path]: the path argument and the last operation
                 \* called on it, op = "none" before any call
    fsOutcome,   \* "none", "ok" or the exception class the call raised
    fsIO,        \* the filesystem accesses the call performed: {[kind, at]}
    \* ---- agents/verifier.py: one call of the verifier's run_command tool
    vrCall,      \* [command, state]: the command argument, "pending" or "done"
    vrResult,    \* the dict the handler returned, or NoResult
    vrSpawned,   \* the calls made to sandbox_provider.run_command, in order
    \* ---- sandbox/local.py, sandbox/modal_provider.py: one run_command call
    rc,          \* [backend, pc, proc, timedOut, result]
    \* ---- events.py: the EventBus with several sessions and subscribers
    bus,         \* [subscribers, gen, published]
    \* ---- agents/base.py: one call of _parse_output
    po,          \* [text, pc, out]: the final text and what parsing gave
    \* ---- tools/github.py: one call of commit_and_push
    cp,          \* [pc, message, commands, commit, push, outcome]
    \* ---- tools/github.py: one call of create_pr
    gh,          \* [pc, args, branch, commands, listed, pushed, pulls, outcome]
    \* ---- agents/base.py: the agent objects and the callback's view
    ag,          \* agent id -> the BaseAgent's fields and its _loop's locals
    stream,      \* the events handed to the shared event callback, in order,
                 \* since the orchestrator agent's invocation began
    nextId,      \* the next tool-use id the decision-maker hands out
    \* ---- orchestrator.py, routes/sessions.py, events.py, routes/events.py
    task,        \* task id -> the asyncio task of a run or of a follow-up
    orch,        \* run id -> the Orchestrator object created for that run
    db,          \* the durable store: statuses, events, messages, artifacts,
                 \* and the files under artifacts_dir
    reg,         \* _active_sessions, _active_run_tasks, _running_orchestrators
    emitted,     \* run id -> the events published through its orchestrator
    sub,         \* the subscriber of the session's event stream
    stop,        \* the stop request suspended in request_interrupt, if any
    quota        \* the requests the environment may still make

fsVars == <<fsCall, fsOutcome, fsIO>>

vrVars == <<vrCall, vrResult, vrSpawned>>

\* the state of the tool handlers that are modelled call by call
toolVars == <<fsVars, vrVars, gh, rc, bus, po, cp>>

agVars == <<ag, stream, nextId>>

ctlVars == <<task, orch, db, reg, emitted, sub, stop, quota>>

vars == <<toolVars, agVars, ctlVars>>

\* what a file operation leaves alone
exceptFs == <<vrVars, gh, rc, bus, po, cp, agVars, ctlVars>>

\* what the verifier's run_command leaves alone
exceptVr == <<fsVars, gh, rc, bus, po, cp, agVars, ctlVars>>

\* what create_pr leaves alone
exceptGh == <<fsVars, vrVars, rc, bus, po, cp, agVars, ctlVars>>

\* what run_command leaves alone
exceptRc == <<fsVars, vrVars, gh, bus, po, cp, agVars, ctlVars>>

\* what the EventBus leaves alone
exceptBus == <<fsVars, vrVars, gh, rc, po, cp, agVars, ctlVars>>

\* what _parse_output leaves alone
exceptPo == <<fsVars, vrVars, gh, rc, bus, cp, agVars, ctlVars>>

\* what commit_and_push leaves alone
exceptCp == <<fsVars, vrVars, gh, rc, bus, po, agVars, ctlVars>>

(***************************************************************************)
(* sandbox/local.py: paths.  A path argument is [abs, parts]: whether the  *)
(* string starts with "/" and its components.  pathlib keeps ".."          *)
(* components and drops "." components when it joins.                      *)
(***************************************************************************)
MaxPathLen == 3

Workspace == <<"w", "repo">>

PathNames == {"a", "w", "repo"}

PathComps == PathNames \cup {"..", "."}

SeqsUpTo(S, n) == UNION {[1..k -> S] : k \in 0..n}

PathArgs == [abs : BOOLEAN, parts : SeqsUpTo(PathComps, MaxPathLen)]

RECURSIVE DropDots(_)
DropDots(s) ==
    IF s = <<>> THEN <<>>
    ELSE IF Head(s) = "." THEN DropDots(Tail(s))
    ELSE <<Head(s)>> \o DropDots(Tail(s))

\* sandbox.workspace / path: an absolute argument replaces the left side
PathJoin(base, p) ==
    IF p.abs THEN DropDots(p.parts) ELSE base \o DropDots(p.parts)

\* PurePath.is_relative_to: a comparison of the components, ".." included
IsRelativeTo(target, base) ==
    /\ Len(target) >= Len(base)
    /\ SubSeq(target, 1, Len(base)) = base

\* where the operating system ends up when it follows the path
RECURSIVE Canonical(_)
Canonical(s) ==
    IF s = <<>> THEN <<>>
    ELSE LET front == Canonical(SubSeq(s, 1, Len(s) - 1))
             last  == s[Len(s)]
         IN  IF last = ".."
             THEN (IF front = <<>> THEN <<>> ELSE SubSeq(front, 1, Len(front) - 1))
             ELSE front \o <<last>>

Parent(s) == IF s = <<>> THEN <<>> ELSE SubSeq(s, 1, Len(s) - 1)

IO(kind, target) == [kind |-> kind, at |-> Canonical(target)]

\* what is on disk at the target when read_file looks
TargetKinds == {"missing", "dir", "file", "binary"}

ReadFile(onDisk) ==
    LET p      == fsCall.path
        target == PathJoin(Workspace, p) IN
    /\ UNCHANGED exceptFs
    /\ fsCall' = [op |-> "read_file", path |-> p]
    /\ IF ~IsRelativeTo(target, Workspace)
       THEN /\ fsOutcome' = "PermissionError"
            /\ fsIO' = {}
       ELSE IF onDisk = "missing"
       THEN /\ fsOutcome' = "FileNotFoundError"
            /\ fsIO' = {IO("stat", target)}
       ELSE IF onDisk = "dir"
       THEN /\ fsOutcome' = "IsADirectoryError"
            /\ fsIO' = {IO("stat", target), IO("iterdir", target)}
       ELSE /\ fsOutcome' = "ok"
            /\ fsIO' = {IO("stat", target), IO("read", target)}

WriteFile ==
    LET p      == fsCall.path
        target == PathJoin(Workspace, p) IN
    /\ UNCHANGED exceptFs
    /\ fsCall' = [op |-> "write_file", path |-> p]
    /\ IF ~IsRelativeTo(target, Workspace)
       THEN /\ fsOutcome' = "PermissionError"
            /\ fsIO' = {}
       ELSE /\ fsOutcome' = "ok"
            /\ fsIO' = {IO("mkdir", Parent(target)), IO("write", target)}

ListDir ==
    LET p      == fsCall.path
        target == PathJoin(Workspace, p) IN
    /\ UNCHANGED exceptFs
    /\ fsCall' = [op |-> "list_dir", path |-> p]
    /\ IF ~IsRelativeTo(target, Workspace)
       THEN /\ fsOutcome' = "PermissionError"
            /\ fsIO' = {}
       ELSE /\ fsOutcome' = "ok"
            /\ fsIO' = {IO("iterdir", target)}

FsInit ==
    /\ fsCall = [op |-> "none", path |-> [abs |-> FALSE, parts |-> <<>>]]
    /\ fsOutcome = "none"
    /\ fsIO = {}

(***************************************************************************)
(* agents/verifier.py: the handler _run of the verifier's run_command      *)
(* tool.  A command is a string, here the sequence of its characters, put  *)
(* together from the pieces of CmdAtoms so that every forbidden pattern,   *)
(* an upper-case letter, white space at either end and in the middle, and  *)
(* harmless words all occur.  re.search is computed on the characters.     *)
(***************************************************************************)
MaxCmdLen == 3          \* pieces in a command

VerifierTimeout == 120

PolicyExitCode == 2

ExitCodes == {0, 1, 2}  \* what the sandbox's process may exit with

CmdAtoms ==
    {<<"g", "i", "t">>, <<"G", "i", "t">>, <<"g", "h">>,
     <<"g", "i", "t", "k", "r", "a", "k", "e", "n">>,
     <<"c", "o", "m", "m", "i", "t">>, <<"p", "u", "s", "h">>,
     <<"c", "r", "e", "a", "t", "e">>, <<"p", "r">>, <<"l", "s">>,
     <<"x">>, <<" ">>, <<"\t">>}

RECURSIVE Flatten(_)
Flatten(pieces) ==
    IF pieces = <<>> THEN <<>> ELSE Head(pieces) \o Flatten(Tail(pieces))

Commands == {Flatten(ps) : ps \in SeqsUpTo(CmdAtoms, MaxCmdLen)}

IsSpace(c) == c \in {" ", "\t"}

\* str.strip
RECURSIVE LStrip(_)
LStrip(s) ==
    IF s # <<>> /\ IsSpace(Head(s)) THEN LStrip(Tail(s)) ELSE s

RECURSIVE RStrip(_)
RStrip(s) ==
    IF s # <<>> /\ IsSpace(s[Len(s)])
    THEN RStrip(SubSeq(s, 1, Len(s) - 1)) ELSE s

Strip(s) == RStrip(LStrip(s))

\* str.lower
Lower(s) == [i \in 1..Len(s) |-> IF s[i] = "G" THEN "g" ELSE s[i]]

\* the literal lit stands in s at position i
HasAt(s, i, lit) ==
    /\ i >= 1
    /\ i + Len(lit) - 1 <= Len(s)
    /\ \A k \in 1..Len(lit) : s[i + k - 1] = lit[k]

Contains(s, lit) == \E i \in 1..Len(s) : HasAt(s, i, lit)

SpaceAt(s, i) == i >= 1 /\ i <= Len(s) /\ IsSpace(s[i])

\* re.search of each of _FORBIDDEN_COMMAND_PATTERNS, in the list's order
PatternMatches(n, s) ==
    CASE n = 1 -> \E i \in 1..Len(s) :
                      /\ HasAt(s, i, <<"g", "i", "t">>)
                      /\ (i = 1 \/ SpaceAt(s, i - 1))
                      /\ SpaceAt(s, i + 3)
      [] n = 2 -> \E i \in 1..Len(s) :
                      HasAt(s, i, <<"g", "h">>) /\ SpaceAt(s, i + 2)
      [] n = 3 -> Contains(s, <<"g", "i", "t", "k", "r", "a", "k", "e", "n">>)
      [] n = 4 -> Contains(s, <<"c", "o", "m", "m", "i", "t">>)
      [] n = 5 -> Contains(s, <<"p", "u", "s", "h">>)
      [] n = 6 -> \E i, j \in 1..Len(s) :
                      /\ HasAt(s, i, <<"c", "r", "e", "a", "t", "e">>)
                      /\ j >= i + 7
                      /\ \A k \in (i + 6)..(j - 1) : IsSpace(s[k])
                      /\ HasAt(s, j, <<"p", "r">>)

NumPatterns == 6

\* normalized = command.strip() with no .lower()
Normalized_CaseKept(command) == Strip(command)

\* normalized = command.strip().lower()
Normalized(command) == Lower(Strip(command))

\* the for loop of _run: the first pattern that matches, 0 when none does
RECURSIVE FirstMatch(_, _)
FirstMatch(n, s) ==
    IF n > NumPatterns THEN 0
    ELSE IF PatternMatches(n, s) THEN n
    ELSE FirstMatch(n + 1, s)

NoResult == [exit_code |-> -1, stdout |-> "none", stderr |-> "none"]

Rejection ==
    [exit_code |-> PolicyExitCode, stdout |-> "", stderr |-> "safety policy"]

\* _run(command); exit is what the process exits with when one is spawned
VerifierRun(exit) ==
    /\ vrCall.state = "pending"
    /\ vrCall' = [vrCall EXCEPT !.state = "done"]
    /\ IF FirstMatch(1, Normalized(vrCall.command)) # 0
       THEN /\ vrResult' = Rejection
            /\ vrSpawned' = vrSpawned
       ELSE /\ vrSpawned' = Append(vrSpawned,
                                   [command |-> vrCall.command,
                                    timeout |-> VerifierTimeout])
            /\ vrResult' = [exit_code |-> exit, stdout |-> "stdout",
                            stderr |-> "stderr"]
    /\ UNCHANGED exceptVr

VrIdle ==
    /\ vrCall = [command |-> <<>>, state |-> "none"]
    /\ vrResult = NoResult
    /\ vrSpawned = <<>>

(***************************************************************************)
(* tools/github.py: create_pr.  Each command handed to the sandbox is a    *)
(* step; what the command prints and exits with is the environment's       *)
(* choice.  Command output is a sequence of characters.                    *)
(***************************************************************************)
Branches == {<<"x">>, <<"l", "s">>, <<"p", "r">>}

\* the arguments repo_full_name and title
PrArgs == [repo : {"o/r", "o/s"}, title : {"t", "u"}]

\* stdout of a command that prints text: the text with a trailing space
\* character or without one
Printed(text) == {text, text \o <<" ">>}

\* stdout of git ls-remote --heads origin <branch>
LsRemoteOutputs(branch) ==
    {<<>>, <<" ">>} \cup Printed(<<"r", "e", "f", "s", "/">> \o branch)

GhIdle ==
    [pc |-> "none", args |-> [repo |-> "", title |-> ""], branch |-> <<>>,
     commands |-> <<>>, listed |-> FALSE,
     pushed |-> FALSE, pulls |-> <<>>, outcome |-> "none"]

\* raise RuntimeError(...)
GhRaise(g) == [g EXCEPT !.pc = "done", !.outcome = "RuntimeError"]

\* result = await run_command(sandbox, "git rev-parse --abbrev-ref HEAD")
RevParse(exit, stdout) ==
    /\ gh.pc = "rev_parse"
    /\ LET g == [gh EXCEPT !.commands = Append(@, <<"rev-parse">>)]
       IN  gh' = IF exit # 0 THEN GhRaise(g)
                 ELSE [g EXCEPT !.pc = "ls_remote", !.branch = Strip(stdout)]
    /\ UNCHANGED exceptGh

\* remote_check = await run_command(sandbox, f"git ls-remote --heads origin
\* {branch}"), then if not remote_check.stdout.strip()
LsRemote(stdout) ==
    /\ gh.pc = "ls_remote"
    /\ LET g == [gh EXCEPT
                    !.commands = Append(@, <<"ls-remote", gh.branch>>)]
       IN  gh' = IF Strip(stdout) = <<>>
                 THEN [g EXCEPT !.pc = "push"]
                 ELSE [g EXCEPT !.pc = "create_pull", !.listed = TRUE]
    /\ UNCHANGED exceptGh

\* the push without the check of push_result.exit_code
Push_ExitIgnored(exit) ==
    /\ gh.pc = "push"
    /\ gh' = [gh EXCEPT !.commands = Append(@, <<"push", gh.branch>>),
                        !.pc = "create_pull"]
    /\ UNCHANGED exceptGh

\* push_result = await run_command(sandbox, f"git push -u origin {branch}"),
\* then if push_result.exit_code != 0
Push(exit) ==
    /\ gh.pc = "push"
    /\ LET g == [gh EXCEPT !.commands = Append(@, <<"push", gh.branch>>)]
       IN  gh' = IF exit # 0 THEN GhRaise(g)
                 ELSE [g EXCEPT !.pc = "create_pull", !.pushed = TRUE]
    /\ UNCHANGED exceptGh

\* the try block: Github(token), get_repo, repo.create_pull(head=branch);
\* any exception becomes a RuntimeError
CreatePull(ok) ==
    /\ gh.pc = "create_pull"
    /\ LET g == [gh EXCEPT !.pulls = Append(@, [repo |-> gh.args.repo,
                                               title |-> gh.args.title,
                                               head |-> gh.branch])]
       IN  gh' = IF ok THEN [g EXCEPT !.pc = "done", !.outcome = "created"]
                 ELSE GhRaise(g)
    /\ UNCHANGED exceptGh

(***************************************************************************)
(* tools/github.py: commit_and_push.  The commit message is a string of    *)
(* characters; every command's exit code is the sandbox's choice.  commit  *)
(* and push record whether the command ran and what it exited with.        *)
(***************************************************************************)
MaxMsgLen == 2

MsgAtoms ==
    {<<"a", "d", "d">>, <<"A", "d", "d">>, <<"f", "i", "x">>, <<" ">>,
     <<"\"">>}

Messages == {Flatten(ps) : ps \in SeqsUpTo(MsgAtoms, MaxMsgLen)}

\* message.replace('"', '\\"')
RECURSIVE EscapeQuotes(_)
EscapeQuotes(s) ==
    IF s = <<>> THEN <<>>
    ELSE (IF Head(s) = "\"" THEN <<"\\", "\"">> ELSE <<Head(s)>>)
             \o EscapeQuotes(Tail(s))

GitAddCmd == <<"g", "i", "t", " ", "a", "d", "d", " ", "-", "A">>

\* f'git commit -m "{safe_message}"'
GitCommitCmd(message) ==
    <<"g", "i", "t", " ", "c", "o", "m", "m", "i", "t", " ", "-", "m", " ",
      "\"">> \o EscapeQuotes(message) \o <<"\"">>

NotRun == [ran |-> FALSE, exit_code |-> 0]

CpIdle ==
    [pc |-> "none", message |-> <<>>, commands |-> <<>>, commit |-> NotRun,
     push |-> NotRun, branch |-> <<>>, outcome |-> "none"]

CpRaise(c) == [c EXCEPT !.pc = "done", !.outcome = "RuntimeError"]

\* the two git config commands, whose results are not looked at
GitConfig(exit) ==
    /\ cp.pc \in {"config_email", "config_name"}
    /\ cp' = [cp EXCEPT !.commands = Append(@, <<"config">>),
                        !.pc = IF cp.pc = "config_email" THEN "config_name"
                               ELSE "add"]
    /\ UNCHANGED exceptCp

\* the test of the for loop: a non-zero exit raises unless the text of the
\* command contains "add"
LoopRaises(cmd, exit) == exit # 0 /\ ~Contains(cmd, <<"a", "d", "d">>)

GitAdd(exit) ==
    /\ cp.pc = "add"
    /\ LET c == [cp EXCEPT !.commands = Append(@, <<"add">>)]
       IN  cp' = IF LoopRaises(GitAddCmd, exit) THEN CpRaise(c)
                 ELSE [c EXCEPT !.pc = "commit"]
    /\ UNCHANGED exceptCp

GitCommit(exit) ==
    /\ cp.pc = "commit"
    /\ LET c == [cp EXCEPT !.commands = Append(@, <<"commit">>),
                           !.commit = [ran |-> TRUE, exit_code |-> exit]]
       IN  cp' = IF LoopRaises(GitCommitCmd(cp.message), exit)
                 THEN CpRaise(c)
                 ELSE [c EXCEPT !.pc = "rev_parse"]
    /\ UNCHANGED exceptCp

\* git rev-parse --abbrev-ref HEAD: the exit code is not looked at
BranchRead(exit, stdout) ==
    /\ cp.pc = "rev_parse"
    /\ cp' = [cp EXCEPT !.commands = Append(@, <<"rev-parse">>),
                        !.branch = Strip(stdout), !.pc = "push"]
    /\ UNCHANGED exceptCp

\* git push -u origin {branch}, then if result.exit_code != 0
GitPush(exit) ==
    /\ cp.pc = "push"
    /\ LET c == [cp EXCEPT !.commands = Append(@, <<"push">>),
                           !.push = [ran |-> TRUE, exit_code |-> exit]]
       IN  cp' = IF exit # 0 THEN CpRaise(c)
                 ELSE [c EXCEPT !.pc = "rev_parse_head"]
    /\ UNCHANGED exceptCp

\* git rev-parse HEAD, then the result with status pushed
ShaRead(exit) ==
    /\ cp.pc = "rev_parse_head"
    /\ cp' = [cp EXCEPT !.commands = Append(@, <<"rev-parse">>),
                        !.pc = "done", !.outcome = "pushed"]
    /\ UNCHANGED exceptCp

(***************************************************************************)
(* sandbox/modal_provider.py: the file operations of the container         *)
(* backend, on the same path arguments.  The target is the string          *)
(* f"{workspace}/{path}", which the container's tools resolve; what a tool *)
(* exits with is the environment's choice.                                 *)
(***************************************************************************)
\* the guard of LocalSandbox.read_file, write_file and list_dir
LocalRejects(p) == ~IsRelativeTo(PathJoin(Workspace, p), Workspace)

\* f"{sandbox.workspace}/{path}": the components after the workspace's,
\* whether or not path starts with "/"
ModalTarget(p) == Workspace \o DropDots(p.parts)

Exec(tool, target) == [kind |-> tool, at |-> Canonical(target)]

ModalReadFile(returncode) ==
    LET target == ModalTarget(fsCall.path) IN
    /\ fsCall' = [op |-> "modal.read_file", path |-> fsCall.path]
    /\ fsIO' = {Exec("cat", target)}
    /\ fsOutcome' = IF returncode # 0 THEN "FileNotFoundError" ELSE "ok"
    /\ UNCHANGED exceptFs

ModalWriteFile(returncode) ==
    LET target == ModalTarget(fsCall.path) IN
    /\ fsCall' = [op |-> "modal.write_file", path |-> fsCall.path]
    /\ fsIO' = {Exec("mkdir", Parent(target)), Exec("bash", target)}
    /\ fsOutcome' = IF returncode # 0 THEN "RuntimeError" ELSE "ok"
    /\ UNCHANGED exceptFs

ModalListDir(returncode) ==
    LET target == ModalTarget(fsCall.path) IN
    /\ fsCall' = [op |-> "modal.list_dir", path |-> fsCall.path]
    /\ fsIO' = {Exec("ls", target)}
    /\ fsOutcome' = IF returncode # 0 THEN "FileNotFoundError" ELSE "ok"
    /\ UNCHANGED exceptFs

(***************************************************************************)
(* The delete_file tool: the handler _delete that create_implementer       *)
(* registers (agents/implementer.py) and delete_file of                    *)
(* tools/filesystem.py, which no agent registers.  Both work on the local  *)
(* filesystem through pathlib.                                             *)
(***************************************************************************)
\* _delete(path); exists is whether something is at the target
ImplementerDelete(exists) ==
    LET target == PathJoin(Workspace, fsCall.path) IN
    /\ fsCall' = [op |-> "implementer.delete_file", path |-> fsCall.path]
    /\ fsIO' = {IO("stat", target)}
                   \cup (IF exists THEN {IO("unlink", target)} ELSE {})
    /\ fsOutcome' = "ok"
    /\ UNCHANGED exceptFs

\* tools.filesystem.delete_file(sandbox_provider, sandbox, path)
DeleteFile(exists) ==
    LET target == PathJoin(Workspace, fsCall.path) IN
    /\ fsCall' = [op |-> "delete_file", path |-> fsCall.path]
    /\ IF ~IsRelativeTo(target, Workspace)
       THEN /\ fsOutcome' = "PermissionError"
            /\ fsIO' = {}
       ELSE /\ fsOutcome' = "ok"
            /\ fsIO' = {IO("stat", target)}
                           \cup (IF exists THEN {IO("unlink", target)} ELSE {})
    /\ UNCHANGED exceptFs

(***************************************************************************)
(* run_command of both backends (sandbox/local.py, modal_provider.py): the *)
(* command's process is started, then either it exits or the timeout       *)
(* passes first.                                                           *)
(***************************************************************************)
Backends == {"local", "modal"}

TimedOut == [exit_code |-> -1, stdout |-> "", stderr |-> "Command timed out"]

NoCommand ==
    [backend |-> "none", pc |-> "idle", proc |-> "none", timedOut |-> FALSE,
     result |-> NoResult]

\* create_subprocess_shell / sb.exec, then the wait under asyncio.wait_for
RunCommand(backend) ==
    /\ rc.pc = "idle"
    /\ rc' = [rc EXCEPT !.backend = backend, !.pc = "waiting",
                        !.proc = "running"]
    /\ UNCHANGED exceptRc

\* the process exits in time; LocalSandbox reports `proc.returncode or 0`
CommandExits(code) ==
    /\ rc.pc = "waiting"
    /\ rc' = [rc EXCEPT !.pc = "done", !.proc = "exited",
                        !.result = [exit_code |-> code, stdout |-> "stdout",
                                    stderr |-> "stderr"]]
    /\ UNCHANGED exceptRc

\* except asyncio.TimeoutError: LocalSandbox calls proc.kill(), ModalSandbox
\* only returns
CommandTimesOut ==
    /\ rc.pc = "waiting"
    /\ rc' = [rc EXCEPT !.pc = "done", !.timedOut = TRUE,
                        !.proc = IF rc.backend = "local" THEN "killed"
                                 ELSE "running",
                        !.result = TimedOut]
    /\ UNCHANGED exceptRc

(***************************************************************************)
(* events.py: the EventBus on its own, with two sessions and several       *)
(* subscribers.  A subscriber is one call of subscribe: an async generator *)
(* with its own queue.  pc is where the generator is suspended: "get" at   *)
(* the await of queue.get under wait_for, "yield" at `yield event`,        *)
(* "keepalive" at the yield of the except clause, "done" after its         *)
(* finally.  `due` records the events published to the generator's session *)
(* while its queue was in _subscribers, and closed whether the consumer    *)
(* ended it (aclose or cancellation) before it ended by itself.            *)
(***************************************************************************)
MaxPublish == 3

MaxQueues == 2

Sessions == {"s1", "s2"}

QueueIds == 1..MaxQueues

BusKeepalive == [session |-> "none", n |-> 0, type |-> "keepalive"]

NoBus ==
    [subscribers |-> [sid \in Sessions |-> <<>>],
     gen |-> [q \in QueueIds |->
                [pc |-> "none", session |-> "none", queue |-> <<>>,
                 yielded |-> <<>>, due |-> <<>>, closed |-> FALSE]],
     published |-> 0]

\* EventBus.publish: put_nowait on every queue of the session's list
BusPublish(sid) ==
    /\ bus.published < MaxPublish
    /\ LET e == [session |-> sid, n |-> bus.published + 1, type |-> "event"]
           listed(q) == \E i \in 1..Len(bus.subscribers[sid]) :
                            bus.subscribers[sid][i] = q
       IN  bus' = [bus EXCEPT
                     !.published = @ + 1,
                     !.gen = [q \in QueueIds |->
                                IF listed(q)
                                THEN [@[q] EXCEPT !.queue = Append(@, e),
                                                  !.due = Append(@, e)]
                                ELSE @[q]]]
    /\ UNCHANGED exceptBus

\* subscribe up to its first await: a new queue, appended to the list
Subscribe(q, sid) ==
    /\ bus.gen[q].pc = "none"
    /\ bus' = [bus EXCEPT !.gen[q].pc = "get", !.gen[q].session = sid,
                          !.subscribers[sid] = Append(@, q)]
    /\ UNCHANGED exceptBus

\* queue.get returns and the event is yielded
QueueGet(q) ==
    /\ bus.gen[q].pc = "get"
    /\ bus.gen[q].queue # <<>>
    /\ bus' = [bus EXCEPT !.gen[q].pc = "yield",
                          !.gen[q].yielded = Append(@, Head(bus.gen[q].queue)),
                          !.gen[q].queue = Tail(@)]
    /\ UNCHANGED exceptBus

\* the consumer asks for the next event: back to the await in the loop
NextAsked(q) ==
    /\ bus.gen[q].pc = "yield"
    /\ bus' = [bus EXCEPT !.gen[q].pc = "get"]
    /\ UNCHANGED exceptBus

\* wait_for raises TimeoutError after 30 s on an empty queue: the except
\* clause yields a keepalive
GetTimesOut(q) ==
    /\ bus.gen[q].pc = "get"
    /\ bus.gen[q].queue = <<>>
    /\ bus' = [bus EXCEPT !.gen[q].pc = "keepalive",
                          !.gen[q].yielded = Append(@, BusKeepalive)]
    /\ UNCHANGED exceptBus

\* the finally clause: the queue leaves the list (an empty list's key is
\* deleted, which publish reads as an empty list again)
Removed(b, q) ==
    [b EXCEPT !.gen[q].pc = "done",
              !.subscribers[b.gen[q].session] =
                  SelectSeq(@, LAMBDA x : x # q)]

\* the consumer asks for the next event after the keepalive: the except
\* clause is over, the generator runs its finally and ends
KeepaliveEnds(q) ==
    /\ bus.gen[q].pc = "keepalive"
    /\ bus' = Removed(bus, q)
    /\ UNCHANGED exceptBus

\* the consumer ends the generator where it is suspended (CancelledError
\* at the await, GeneratorExit at a yield)
GeneratorClosed(q) ==
    /\ bus.gen[q].pc \in {"get", "yield", "keepalive"}
    /\ bus' = Removed([bus EXCEPT !.gen[q].closed = TRUE], q)
    /\ UNCHANGED exceptBus

(***************************************************************************)
(* agents/base.py: _parse_output on a final text.  A text is a string of   *)
(* characters built from a few pieces: the opening fence with its json     *)
(* tag, a bare fence, a JSON object, a JSON number, another character and  *)
(* a space.                                                                *)
(***************************************************************************)
MaxTextLen == 3

\* "bq" is the backquote character
Fence == <<"bq", "bq", "bq">>

FenceJson == Fence \o <<"j", "s", "o", "n">>

TextAtoms == {FenceJson, Fence, <<"{", "}">>, <<"1">>, <<"x">>, <<" ">>}

Texts == {Flatten(ps) : ps \in SeqsUpTo(TextAtoms, MaxTextLen)}

\* str.index(lit, from): the first position at or after `from` where lit
\* occurs, 0 standing for ValueError
IndexFrom(s, lit, from) ==
    LET at == {i \in from..Len(s) : HasAt(s, i, lit)}
    IN  IF at = {} THEN 0 ELSE CHOOSE i \in at : \A j \in at : i <= j

\* json.loads on these texts: surrounding whitespace is skipped; an
\* object, or a number (a run of digits), or JSONDecodeError
JsonLoads(s) ==
    LET t == Strip(s) IN
    IF t = <<"{", "}">> THEN [ok |-> TRUE, type |-> "dict", of |-> t]
    ELSE IF t # <<>> /\ \A i \in 1..Len(t) : t[i] = "1"
    THEN [ok |-> TRUE, type |-> "int", of |-> t]
    ELSE [ok |-> FALSE, type |-> "JSONDecodeError", of |-> t]

\* lines 240-244: the raw parse, then the wrapper
ParseRaw(text) ==
    IF JsonLoads(text).ok
    THEN [raised |-> "none", value |-> JsonLoads(text)]
    ELSE [raised |-> "none",
          value |-> [ok |-> TRUE, type |-> "dict",
                     of |-> <<"summary">> \o text]]

\* BaseAgent._parse_output
ParseOutput(text) ==
    IF Contains(text, FenceJson)
    THEN LET start == IndexFrom(text, FenceJson, 1) + 7
             end   == IndexFrom(text, Fence, start)
         IN  IF end = 0
             THEN [raised |-> "ValueError",
                   value |-> [ok |-> FALSE, type |-> "none", of |-> <<>>]]
             ELSE IF JsonLoads(SubSeq(text, start, end - 1)).ok
             THEN [raised |-> "none",
                   value |-> JsonLoads(SubSeq(text, start, end - 1))]
             ELSE ParseRaw(text)
    ELSE ParseRaw(text)

NoParse ==
    [text |-> <<>>, pc |-> "idle",
     out |-> [raised |-> "none",
              value |-> [ok |-> FALSE, type |-> "none", of |-> <<>>]]]

\* _loop, lines 199-201: the final text is parsed
ParseFinalText ==
    /\ po.pc = "idle"
    /\ po' = [po EXCEPT !.pc = "done", !.out = ParseOutput(po.text)]
    /\ UNCHANGED exceptPo

\* the tool handlers before any call
ToolsIdle == FsInit /\ VrIdle /\ gh = GhIdle /\ rc = NoCommand /\ bus = NoBus /\ po = NoParse
    /\ cp = CpIdle

(***************************************************************************)
(* agents/base.py: the executor.  Agent 1 is the orchestrator agent, which *)
(* lives across run and resume; agent 2 is the sub-agent that the handler  *)
(* of run_implementer / run_verifier creates and runs (agents/agent.py).   *)
(* An agent's record holds the BaseAgent fields and, while an invocation   *)
(* is in progress, the locals of _loop.  pc is the await the invocation is *)
(* suspended at: "llm" (messages.create), "handler" (a tool handler), or   *)
(* "idle" when no invocation is in progress.  `ended` and `output` record  *)
(* how the last invocation ended and what it returned.                     *)
(***************************************************************************)
OrchIterCap == 2        \* stands for max_iterations = 60 of the orchestrator

SubIterCap == 1         \* stands for max_iterations = 40 / 10 of a sub-agent

MaxBlocks == 3          \* content blocks in one decision-maker response

MaxInvocations == 2     \* run plus resumes of the orchestrator agent

MaxIds == 3             \* content blocks the decision-maker produces in all

Top == 1

Sub == 2

AgentIds == {Top, Sub}

IterCap(role) == IF role = "orchestrator" THEN OrchIterCap ELSE SubIterCap

\* the names each role registers, by what their handlers do
AwaitingTools(role) == {"read_file"}

SpawnTools(role) ==
    IF role = "orchestrator" THEN {"run_implementer", "run_verifier"} ELSE {}

MetaTools(role) == IF role = "orchestrator" THEN {"complete"} ELSE {}

Tools(role) == AwaitingTools(role) \cup SpawnTools(role) \cup MetaTools(role)

\* the tool names a decision-maker response may carry
ToolNames(role) ==
    IF role = "orchestrator"
    THEN {"read_file", "run_implementer", "complete", "bogus"}
    ELSE {"read_file", "bogus"}

SubRole(tool) == IF tool = "run_implementer" THEN "implementer" ELSE "verifier"

FreshAgent(role) ==
    [role |-> role, done |-> FALSE, interrupted |-> FALSE, result |-> "none",
     events |-> <<>>, messages |-> <<>>, pc |-> "idle", iterations |-> 0,
     blocks |-> <<>>, response |-> <<>>, hasToolUse |-> FALSE,
     toolResults |-> <<>>, invocations |-> 0, ended |-> "none",
     output |-> "none", sinceFlag |-> [answers |-> 0, handlers |-> 0],
     resultOf |-> 0]

Text(t) == [type |-> "text", text |-> t]

Event(role, type, info, id) ==
    [role |-> role, type |-> type, info |-> info, id |-> id]

\* an _emit that tags every event with the orchestrator agent's role
Emit_Untagged(w, a, type, info, id) ==
    LET e == Event("orchestrator", type, info, id)
    IN  [w EXCEPT !.ag[a].events = Append(@, e), !.stream = Append(@, e)]

\* BaseAgent._emit: into the agent's own buffer and to the callback
Emit(w, a, type, info, id) ==
    LET e == Event(w.ag[a].role, type, info, id)
    IN  [w EXCEPT !.ag[a].events = Append(@, e), !.stream = Append(@, e)]

Status(w, a, suffix) == Emit(w, a, "status_change", suffix, 0)

\* sinceFlag counts what the loop of agent a does while its interrupted
\* flag is set: the decision-maker calls that return to it and the tool
\* handlers it calls
Answered(w, a) ==
    IF w.ag[a].interrupted
    THEN [w EXCEPT !.ag[a].sinceFlag.answers = @ + 1] ELSE w

Dispatched(w, a) ==
    IF w.ag[a].interrupted
    THEN [w EXCEPT !.ag[a].sinceFlag.handlers = @ + 1] ELSE w

RECURSIVE LoopHead(_, _), AfterLoop(_, _), Return(_, _, _, _), Blocks(_, _),
          ToolResult(_, _, _), Caught(_, _)

\* the invocation of agent a returns an AgentOutput; a sub-agent's output is
\* what the parent's handler returns (a dict, serialized by the parent)
Return(w, a, how, out) ==
    LET w1 == [w EXCEPT !.ag[a].pc = "idle", !.ag[a].ended = how,
                        !.ag[a].output = out]
    IN  IF a = Sub THEN ToolResult(w1, Top, "json") ELSE w1

\* an exception leaves the invocation of agent a (nothing in _loop catches it
\* outside a handler call); out of a sub-agent it is raised by the parent's
\* handler, inside the parent's try
Uncaught(w, a) ==
    LET w1 == [w EXCEPT !.ag[a].pc = "idle", !.ag[a].ended = "exception"]
    IN  IF a = Sub THEN Caught(w1, Top) ELSE w1

Caught_Propagates(w, a) == Uncaught(w, a)

\* _loop, lines 169-172: except Exception around the handler call
Caught(w, a) == ToolResult(w, a, "Error")

\* the code after the while loop without the test of _done
AfterLoop_NoCapBranch(w, a) ==
    Return(Status(w, a, "completed"), a, "returned", w.ag[a].result)

\* _loop, lines 205-216: after the while loop
AfterLoop(w, a) ==
    IF w.ag[a].done
    THEN Return(Status(w, a, "completed"), a, "returned", w.ag[a].result)
    ELSE Return(Emit(w, a, "error", "max_iterations", 0), a, "cap",
                "max_iterations_reached")

Interrupted_Silent(w, a) ==
    Return([w EXCEPT !.ag[a].done = TRUE, !.ag[a].result = "interrupted"],
           a, "returned", "interrupted")

\* _loop, lines 109-112 and 127-130: the interrupted flag was seen
Interrupted(w, a) ==
    AfterLoop([w EXCEPT !.ag[a].done = TRUE,
                        !.ag[a].result = "interrupted"], a)

\* a loop test that looks at _done only
LoopHead_NoCap(w, a) ==
    IF ~w.ag[a].done
    THEN IF w.ag[a].interrupted
         THEN Interrupted(w, a)
         ELSE [w EXCEPT !.ag[a].iterations = @ + 1, !.ag[a].pc = "llm"]
    ELSE AfterLoop(w, a)

\* _loop, lines 108-125: the loop test, the first interrupt check, and on to
\* the decision-maker call
LoopHead(w, a) ==
    IF w.ag[a].iterations < IterCap(w.ag[a].role) /\ ~w.ag[a].done
    THEN IF w.ag[a].interrupted
         THEN Interrupted(w, a)
         ELSE [w EXCEPT !.ag[a].iterations = @ + 1, !.ag[a].pc = "llm"]
    ELSE AfterLoop(w, a)

\* BaseAgent.run, entered by the controller (Top) or by a spawn handler (Sub)
RunAgent(w, a) ==
    LET w1 == [w EXCEPT !.ag[a].messages =
                            <<[role |-> "user", form |-> "str",
                               items |-> <<Text("context")>>]>>,
                        !.ag[a].done = FALSE,
                        !.ag[a].iterations = 0,
                        !.ag[a].invocations = @ + 1,
                        !.ag[a].ended = "running",
                        !.ag[a].output = "none"]
    IN  LoopHead(Status(w1, a, "started"), a)

\* the tool_result event without the entry for the next user turn
ToolResult_NoEntry(w, a, resultStr) ==
    LET b  == Head(w.ag[a].blocks)
        w1 == Emit(w, a, "tool_result", resultStr, b.id)
        w2 == [w1 EXCEPT !.ag[a].blocks = Tail(@), !.ag[a].pc = "sync"]
    IN  Blocks(w2, a)

\* the tool_result event and entry of lines 174-189, then the next block
ToolResult(w, a, resultStr) ==
    LET b  == Head(w.ag[a].blocks)
        w1 == Emit(w, a, "tool_result", resultStr, b.id)
        w2 == [w1 EXCEPT !.ag[a].toolResults =
                             Append(@, [type |-> "tool_result", id |-> b.id]),
                         !.ag[a].blocks = Tail(@),
                         !.ag[a].pc = "sync"]
    IN  Blocks(w2, a)

\* a complete handler that records the result and leaves _done alone
HandleComplete_NotDone(w, a) ==
    ToolResult([w EXCEPT !.ag[a].result = "complete",
                         !.ag[a].resultOf = Head(w.ag[a].blocks).id],
               a, "text")

\* the complete tool's handler: mark_done, no await inside; resultOf is the
\* tool-use block whose arguments are the result
HandleComplete(w, a) ==
    ToolResult([w EXCEPT !.ag[a].done = TRUE, !.ag[a].result = "complete",
                         !.ag[a].resultOf = Head(w.ag[a].blocks).id],
               a, "text")

\* the run_implementer / run_verifier handlers: a fresh sub-agent, its run
Spawn(w, a, tool) ==
    RunAgent([w EXCEPT !.ag[a].pc = "handler",
                       !.ag[Sub] = FreshAgent(SubRole(tool))], Sub)

\* _loop, lines 137-203: the response's blocks from the first one not yet
\* processed, up to the next await or the end of the iteration
Blocks(w, a) ==
    LET me == w.ag[a] IN
    IF me.blocks = <<>>
    THEN IF me.hasToolUse
         THEN LoopHead(
                [w EXCEPT !.ag[a].messages =
                     @ \o <<[role |-> "assistant", form |-> "blocks",
                             items |-> me.response],
                            [role |-> "user", form |-> "list",
                             items |-> me.toolResults]>>], a)
         ELSE LET w1 == IF me.done THEN w
                        ELSE [w EXCEPT !.ag[a].result = "parsed"]
              IN  Return(Status(w1, a, "completed"), a, "returned",
                         w1.ag[a].result)
    ELSE LET b == Head(me.blocks) IN
         IF b.type = "text"
         THEN Blocks([Emit(w, a, "agent_message", "text", 0)
                         EXCEPT !.ag[a].blocks = Tail(@)], a)
         ELSE LET w1 == Emit(w, a, "tool_call", b.name, b.id)
                  w2 == Dispatched(w1, a) IN
              IF b.name \notin Tools(me.role)
              THEN ToolResult(w1, a, "Error")
              ELSE IF b.name \in MetaTools(me.role)
              THEN HandleComplete(w2, a)
              ELSE IF b.name \in SpawnTools(me.role)
              THEN Spawn(w2, a, b.name)
              ELSE [w2 EXCEPT !.ag[a].pc = "handler"]

\* resume that always starts a new user turn
ResumeAgent_AlwaysNewTurn(w, a, msg) ==
    LET w1 == [w EXCEPT !.ag[a].messages =
                            Append(@, [role |-> "user", form |-> "str",
                                       items |-> <<Text(msg)>>]),
                        !.stream = <<>>,
                        !.ag[a].done = FALSE,
                        !.ag[a].events = <<>>,
                        !.ag[a].iterations = 0,
                        !.ag[a].invocations = @ + 1,
                        !.ag[a].ended = "running",
                        !.ag[a].output = "none"]
    IN  LoopHead(Status(w1, a, "resumed"), a)

\* BaseAgent.resume
ResumeAgent(w, a, msg) ==
    LET m  == w.ag[a].messages
        m1 == IF m # <<>> /\ m[Len(m)].role = "user"
              THEN [m EXCEPT ![Len(m)].items = Append(@, Text(msg))]
              ELSE Append(m, [role |-> "user", form |-> "str",
                              items |-> <<Text(msg)>>])
        w1 == [w EXCEPT !.ag[a].messages = m1,
                        !.stream = <<>>,
                        !.ag[a].done = FALSE,
                        !.ag[a].events = <<>>,
                        !.ag[a].iterations = 0,
                        !.ag[a].invocations = @ + 1,
                        !.ag[a].ended = "running",
                        !.ag[a].output = "none"]
    IN  LoopHead(Status(w1, a, "resumed"), a)

\* the blocks of a response processed without a fresh tool_results list
AfterLlm_KeepsResults(w, a, kinds, firstId) ==
    LET resp == [k \in 1..Len(kinds) |->
                    IF kinds[k] = "text"
                    THEN [type |-> "text", name |-> "", id |-> 0]
                    ELSE [type |-> "tool_use", name |-> kinds[k],
                          id |-> firstId + k - 1]]
    IN  Blocks([w EXCEPT !.ag[a].response = resp,
                         !.ag[a].blocks = resp,
                         !.ag[a].hasToolUse =
                             \E k \in 1..Len(kinds) : kinds[k] # "text"], a)

\* lines 127-135: the decision-maker call returned `kinds` (per block "text"
\* or a tool name); the second interrupt check, then the blocks
AfterLlm(w, a, kinds, firstId) ==
    IF w.ag[a].interrupted
    THEN Interrupted(Answered(w, a), a)
    ELSE LET resp == [k \in 1..Len(kinds) |->
                        IF kinds[k] = "text"
                        THEN [type |-> "text", name |-> "", id |-> 0]
                        ELSE [type |-> "tool_use", name |-> kinds[k],
                              id |-> firstId + k - 1]]
         IN  Blocks([w EXCEPT !.ag[a].response = resp,
                              !.ag[a].blocks = resp,
                              !.ag[a].hasToolUse =
                                  \E k \in 1..Len(kinds) : kinds[k] # "text",
                              !.ag[a].toolResults = <<>>], a)

\* asyncio.CancelledError thrown into the innermost await: no except clause
\* of the executor catches it, every invocation in progress is left
CancelAll(w) ==
    [w EXCEPT !.ag = [a \in AgentIds |->
                        IF w.ag[a].pc = "idle" THEN w.ag[a]
                        ELSE [w.ag[a] EXCEPT !.pc = "idle",
                                             !.ended = "cancelled"]]]

Responses(role) == SeqsUpTo(ToolNames(role) \cup {"text"}, MaxBlocks)

World == [ag |-> ag, stream |-> stream]

Become(w) == ag' = w.ag /\ stream' = w.stream

AgInit ==
    /\ ag = [a \in AgentIds |->
                FreshAgent(IF a = Top THEN "orchestrator" ELSE "none")]
    /\ stream = <<>>
    /\ nextId = 1

AgentRun ==
    /\ ag[Top].pc = "idle"
    /\ ag[Top].invocations = 0
    /\ Become(RunAgent(World, Top))
    /\ UNCHANGED <<nextId, toolVars, ctlVars>>

AgentResume ==
    /\ ag[Top].pc = "idle"
    /\ ag[Top].invocations \in 1..(MaxInvocations - 1)
    /\ Become(ResumeAgent(World, Top, "followup"))
    /\ UNCHANGED <<nextId, toolVars, ctlVars>>

LlmReturns(a) ==
    /\ ag[a].pc = "llm"
    /\ \E kinds \in Responses(ag[a].role) :
          /\ nextId + Len(kinds) <= MaxIds + 1
          /\ Become(AfterLlm(World, a, kinds, nextId))
          /\ nextId' = nextId + Len(kinds)
    /\ UNCHANGED <<toolVars, ctlVars>>

\* the decision-maker answers with one text block that opens a json
\* fence and never closes it: _parse_output raises ValueError (line 201
\* through 235), after the agent_message event
LlmReturnsOpenFence(a) ==
    /\ ag[a].pc = "llm"
    /\ ~ag[a].interrupted
    /\ LET resp == <<[type |-> "text", name |-> "", id |-> 0]>>
           w1 == [World EXCEPT !.ag[a].response = resp,
                               !.ag[a].blocks = <<>>,
                               !.ag[a].hasToolUse = FALSE,
                               !.ag[a].toolResults = <<>>]
       IN  Become(Uncaught(Emit(w1, a, "agent_message", "text", 0), a))
    /\ UNCHANGED <<nextId, toolVars, ctlVars>>

LlmRaises(a) ==
    /\ ag[a].pc = "llm"
    /\ Become(Uncaught(World, a))
    /\ UNCHANGED <<nextId, toolVars, ctlVars>>

AtAwaitingHandler(a) ==
    /\ ag[a].pc = "handler"
    /\ Head(ag[a].blocks).name \in AwaitingTools(ag[a].role)

HandlerReturns(a) ==
    /\ AtAwaitingHandler(a)
    /\ \E out \in {"text", "[Media Content Array]"} :
          Become(ToolResult(World, a, out))
    /\ UNCHANGED <<nextId, toolVars, ctlVars>>

HandlerRaises(a) ==
    /\ AtAwaitingHandler(a)
    /\ Become(Caught(World, a))
    /\ UNCHANGED <<nextId, toolVars, ctlVars>>

TaskCancelled ==
    /\ \E a \in AgentIds : ag[a].pc # "idle"
    /\ Become(CancelAll(World))
    /\ UNCHANGED <<nextId, toolVars, ctlVars>>

\* BaseAgent.interrupt
AgentInterrupt ==
    /\ ~ag[Top].interrupted
    /\ ag' = [ag EXCEPT ![Top].interrupted = TRUE, ![Top].done = TRUE]
    /\ UNCHANGED <<stream, nextId, toolVars, ctlVars>>

(***************************************************************************)
(* orchestrator.py, routes/sessions.py, routes/events.py, events.py: the   *)
(* controller of one session.  A task is the asyncio task that trigger_run *)
(* or send_message creates; its pc is the await its coroutine is suspended *)
(* at, named after the awaited call.  The executor appears here by what    *)
(* the controller can see of it: its two awaits, the events it emits and   *)
(* how it returns; AgentSpec models its loop block by block.  A write to   *)
(* the store takes effect when the task resumes from the await of it; a    *)
(* CancelledError delivered at that await leaves the write undone.  The    *)
(* store itself never fails.  Every published event carries the run of the *)
(* orchestrator that published it and its position n among that run's      *)
(* events, so that an event and its durable record can be told apart from  *)
(* other events of the same content.                                       *)
(***************************************************************************)
MaxRuns == 2            \* trigger_run requests

MaxMsgs == 2            \* send_message requests

MaxStops == 2           \* stop_run requests

MaxConnects == 1        \* connections to the event stream

MaxRequests == 3        \* trigger_run, send_message and stop_run requests

MaxResponses == 2       \* responses of the decision-maker to all tasks

StreamRequests == 1     \* requests of each kind while a client is streaming

RunIds == 1..MaxRuns

TaskIds == 1..(MaxRuns + MaxMsgs)

NoTask ==
    [kind |-> "none", orch |-> 0, pc |-> "none", cancelReq |-> FALSE,
     iterations |-> 0, spawned |-> FALSE, batch |-> <<>>, pend |-> <<>>,
     result |-> "none", cancelled |-> FALSE, intReq |-> FALSE,
     term |-> <<>>]

\* agentInterrupted and clientClosed are the agent's own _interrupted and
\* the state of its client: only BaseAgent.interrupt changes them, and no
\* code of the controller calls it
NewOrchestrator ==
    [interrupted |-> FALSE, sandbox |-> "none", agent |-> FALSE,
     events |-> <<>>, agentInterrupted |-> FALSE, clientClosed |-> FALSE]

\* the awaits inside the try body of run and of continue_run
TryAwaits ==
    {"set_run_running", "set_sess_running", "create", "persist_msg", "llm",
     "tool", "persist_batch", "get_diff", "persist_artifact", "set_pr",
     "set_run_completed", "set_sess_completed"}

\* the awaits inside their except clauses
HandlerAwaits ==
    {"c_persist", "c_set_run", "c_set_sess",
     "f_persist", "f_set_run", "f_set_sess"}

EventDict(role, type, info) == [role |-> role, type |-> type, info |-> info]

StatusChange(role, status) == EventDict(role, "status_change", status)

CW ==
    [task |-> task, orch |-> orch, db |-> db, reg |-> reg,
     emitted |-> emitted, sub |-> sub]

CBecome(c) ==
    /\ task' = c.task
    /\ orch' = c.orch
    /\ db' = c.db
    /\ reg' = c.reg
    /\ emitted' = c.emitted
    /\ sub' = c.sub

Keyed(c, o, es) ==
    [i \in 1..Len(es) |->
        [run |-> o, n |-> Len(c.emitted[o]) + i, role |-> es[i].role,
         type |-> es[i].type, info |-> es[i].info]]

\* the queue registered before the replay is read
Registered_BeforeReplay(s) == s.phase \in {"connected", "replayed", "live"}

\* the client's queue is in EventBus._subscribers from the call of
\* subscribe, which generate makes after the replay, until its finally
Registered(s) == s.phase = "live"

\* Orchestrator._emit_event through the callback of trigger_run:
\* EventBus.publish puts the event on the queue of every subscriber
Publish(c, o, es) ==
    [c EXCEPT !.emitted[o] = @ \o Keyed(c, o, es),
              !.sub.queue = IF Registered(c.sub)
                            THEN @ \o Keyed(c, o, es) ELSE @]

\* BaseAgent._emit of the orchestrator agent: into its own buffer, then to
\* Orchestrator._agent_event_handler
AgentEmits(c, o, es) ==
    Publish([c EXCEPT !.orch[o].events = @ \o Keyed(c, o, es)], o, es)

\* the task's coroutine is over
Finish(c, t) ==
    [c EXCEPT !.task[t] =
        [NoTask EXCEPT !.kind = c.task[t].kind, !.orch = c.task[t].orch,
                       !.pc = "done", !.result = c.task[t].result,
                       !.cancelled = c.task[t].cancelled,
                       !.intReq = c.task[t].intReq, !.term = c.task[t].term]]

\* the finally clause of run
Finally(c, t) ==
    [Finish(c, t) EXCEPT !.reg.activeTask = 0, !.reg.runningOrch = 0]

\* run or continue_run is left, by return or by an exception passing through
Leave(c, t) ==
    IF c.task[t].kind = "run" THEN Finally(c, t) ELSE Finish(c, t)

\* the interrupted path: except CancelledError of run and of continue_run,
\* and except Exception of run when _interrupted is set
EnterInterrupted(c, t) ==
    LET o  == c.task[t].orch
        es == <<StatusChange("orchestrator", "interrupted")>> IN
    Publish([c EXCEPT !.orch[o].interrupted = TRUE,
                      !.task[t].cancelReq = FALSE,
                      !.task[t].pc = "c_persist",
                      !.task[t].pend = Keyed(c, o, es),
                      !.task[t].term = Append(@, "interrupted")], o, es)

\* the failure path of except Exception: run persists the error event,
\* continue_run does not
EnterFailed(c, t) ==
    LET o  == c.task[t].orch
        es == <<EventDict("orchestrator", "error", "exception")>> IN
    Publish([c EXCEPT !.task[t].pc = IF c.task[t].kind = "run"
                                     THEN "f_persist" ELSE "f_set_run",
                      !.task[t].pend = Keyed(c, o, es),
                      !.task[t].term = Append(@, "error")], o, es)

\* an Exception raised at an await of the try body
Raise(c, t) ==
    IF c.task[t].kind = "run" /\ c.orch[c.task[t].orch].interrupted
    THEN EnterInterrupted(c, t)
    ELSE EnterFailed(c, t)

\* _loop returns its AgentOutput; the controller goes on to
\* _persist_events_batch(output.events), which reads the buffer on entry
AgentReturns(c, t, result) ==
    [c EXCEPT !.task[t].pc = "persist_batch",
              !.task[t].batch = c.orch[c.task[t].orch].events,
              !.task[t].result = result,
              !.task[t].iterations = 0,
              !.task[t].spawned = FALSE]

At(t, pc) == task[t].pc = pc /\ ~task[t].cancelReq

CStep(c) == CBecome(c) /\ UNCHANGED <<toolVars, agVars, stop, quota>>

\* a step that takes a response of the decision-maker
LStep(c) ==
    /\ quota.llm > 0
    /\ CBecome(c)
    /\ quota' = [quota EXCEPT !.llm = @ - 1]
    /\ UNCHANGED <<toolVars, agVars, stop>>

\* _execute starts; continue_run returns at once when there is no agent
TaskStart(t) ==
    /\ At(t, "start")
    /\ CStep(IF task[t].kind = "followup" /\ ~orch[task[t].orch].agent
             THEN Finish(CW, t)
             ELSE [CW EXCEPT !.task[t].pc = "set_run_running"])

SetRunRunning(t) ==
    /\ At(t, "set_run_running")
    /\ CStep([CW EXCEPT !.db.runStatus[task[t].orch] = "running",
                        !.task[t].pc = "set_sess_running"])

SetSessionRunning(t) ==
    LET o  == task[t].orch
        c1 == [CW EXCEPT !.db.sess = "running"]
        fu == <<StatusChange("orchestrator", "running"),
                EventDict("user", "user_message", "content")>> IN
    /\ At(t, "set_sess_running")
    /\ CStep(IF task[t].kind = "run"
             THEN Publish([c1 EXCEPT !.task[t].pc = "create"], o,
                          <<StatusChange("orchestrator", "starting"),
                            StatusChange("orchestrator", "cloning_repo")>>)
             ELSE Publish([c1 EXCEPT !.task[t].pc = "persist_msg",
                                     !.task[t].pend =
                                         <<Keyed(c1, o, fu)[2]>>], o, fu))

\* sandbox_provider.create returns; the agent is created and run is called
SandboxCreated(t) ==
    LET o == task[t].orch IN
    /\ At(t, "create")
    /\ CStep(AgentEmits([CW EXCEPT !.orch[o].sandbox = "alive",
                                   !.orch[o].agent = TRUE,
                                   !.orch[o].events = <<>>,
                                   !.task[t].pc = "llm",
                                   !.task[t].iterations = 1], o,
                        <<StatusChange("orchestrator",
                                       "orchestrator_started")>>))

SandboxCreateFails(t) ==
    /\ At(t, "create")
    /\ CStep(Raise(CW, t))

\* _persist_event of the user message returns; resume is called
UserMessagePersisted(t) ==
    LET o == task[t].orch IN
    /\ At(t, "persist_msg")
    /\ CStep(AgentEmits([CW EXCEPT !.db.events = @ \o task[t].pend,
                                   !.task[t].pend = <<>>,
                                   !.orch[o].events = <<>>,
                                   !.task[t].pc = "llm",
                                   !.task[t].iterations = 1], o,
                        <<StatusChange("orchestrator",
                                       "orchestrator_resumed")>>))

\* the decision-maker answers without a tool use, or with complete
TaskLlmFinal(t) ==
    LET o == task[t].orch IN
    /\ At(t, "llm")
    /\ LStep(AgentReturns(
           AgentEmits(CW, o,
               <<EventDict("orchestrator", "agent_message", "text"),
                 StatusChange("orchestrator", "orchestrator_completed")>>),
           t, "ok"))

\* the decision-maker asks for a tool; run_implementer starts a sub-agent,
\* whose events reach the callback only
TaskLlmToolUse(t, spawn) ==
    LET o  == task[t].orch
        c1 == AgentEmits([CW EXCEPT !.task[t].pc = "tool",
                                    !.task[t].spawned = spawn], o,
                  <<EventDict("orchestrator", "tool_call",
                              IF spawn THEN "run_implementer"
                              ELSE "read_file")>>) IN
    /\ At(t, "llm")
    /\ LStep(IF spawn
             THEN Publish(c1, o, <<StatusChange("implementer",
                                                "implementer_started")>>)
             ELSE c1)

TaskLlmRaises(t) ==
    /\ At(t, "llm")
    /\ CStep(Raise(CW, t))

\* the handler returns or raises: a tool_result either way, then the next
\* iteration or the cap
TaskToolDone(t) ==
    LET o  == task[t].orch
        c1 == IF task[t].spawned
              THEN Publish(CW, o, <<StatusChange("implementer",
                                                 "implementer_completed")>>)
              ELSE CW
        c2 == AgentEmits(c1, o,
                  <<EventDict("orchestrator", "tool_result", "result")>>) IN
    /\ At(t, "tool")
    /\ CStep(IF task[t].iterations < OrchIterCap
             THEN [c2 EXCEPT !.task[t].pc = "llm",
                             !.task[t].iterations = @ + 1,
                             !.task[t].spawned = FALSE]
             ELSE AgentReturns(
                      AgentEmits(c2, o, <<EventDict("orchestrator", "error",
                                                    "max_iterations")>>),
                      t, "max_iterations"))

BatchPersisted(t) ==
    /\ At(t, "persist_batch")
    /\ CStep([CW EXCEPT !.db.events = @ \o task[t].batch,
                        !.task[t].batch = <<>>,
                        !.task[t].pc = "get_diff"])

\* the result of the executor carries a pull request or not; the result of
\* the cap carries none
AfterDiff(c, t, pr) ==
    [c EXCEPT !.task[t].pc = IF pr THEN "set_pr" ELSE "set_run_completed"]

\* the artifact of the task's diff: artifacts_dir / run_id / name
ArtifactOf(t) ==
    [run |-> task[t].orch,
     name |-> IF task[t].kind = "run" THEN "changes" ELSE "changes_followup"]

\* _get_diff returned; with a diff, _persist_artifact writes the file and
\* suspends in the store
DiffReturned(t, changed, pr) ==
    /\ At(t, "get_diff")
    /\ orch[task[t].orch].sandbox = "alive"
    /\ pr => ~changed /\ task[t].result = "ok"
    /\ CStep(IF changed
             THEN [CW EXCEPT !.task[t].pc = "persist_artifact",
                             !.db.files = @ \cup {ArtifactOf(t)}]
             ELSE AfterDiff(CW, t, pr))

\* run_command in a sandbox that has been destroyed
DiffRaises(t) ==
    /\ At(t, "get_diff")
    /\ orch[task[t].orch].sandbox = "destroyed"
    /\ CStep(Raise(CW, t))

ArtifactPersisted(t, pr) ==
    /\ At(t, "persist_artifact")
    /\ pr => task[t].result = "ok"
    /\ CStep(AfterDiff(
           [CW EXCEPT !.db.artifacts = Append(@, ArtifactOf(t))], t, pr))

PrRecorded(t) ==
    /\ At(t, "set_pr")
    /\ CStep([CW EXCEPT !.db.runPr[task[t].orch] = TRUE,
                        !.task[t].pc = "set_run_completed"])

SetRunCompleted(t) ==
    /\ At(t, "set_run_completed")
    /\ CStep([CW EXCEPT !.db.runStatus[task[t].orch] = "completed",
                        !.task[t].pc = "set_sess_completed"])

\* the last await of the try body: completed is emitted; run registers the
\* orchestrator for follow-ups and leaves through finally; _execute of
\* send_message goes on to save the summary, when there is one
SetSessionCompleted(t) ==
    LET o  == task[t].orch
        c1 == Publish([CW EXCEPT !.db.sess = "completed",
                                 !.task[t].term = Append(@, "completed")],
                      o, <<StatusChange("orchestrator", "completed")>>) IN
    /\ At(t, "set_sess_completed")
    /\ CStep(IF task[t].kind = "run"
             THEN Finally([c1 EXCEPT !.reg.activeSession = o], t)
             ELSE IF task[t].result = "max_iterations"
             THEN Finish(c1, t)
             ELSE [c1 EXCEPT !.task[t].pc = "save_message"])

MessageSaved(t) ==
    /\ At(t, "save_message")
    /\ CStep(Finish([CW EXCEPT !.db.messages = Append(@, "agent")], t))

InterruptedPersisted(t) ==
    /\ At(t, "c_persist")
    /\ CStep([CW EXCEPT !.db.events = @ \o task[t].pend,
                        !.task[t].pend = <<>>,
                        !.task[t].pc = "c_set_run"])

InterruptedRunSet(t) ==
    /\ At(t, "c_set_run")
    /\ CStep([CW EXCEPT !.db.runStatus[task[t].orch] = "completed",
                        !.task[t].pc = "c_set_sess"])

InterruptedSessionSet(t) ==
    /\ At(t, "c_set_sess")
    /\ CStep(Leave([CW EXCEPT !.db.sess = "completed"], t))

ErrorPersisted(t) ==
    /\ At(t, "f_persist")
    /\ CStep([CW EXCEPT !.db.events = @ \o task[t].pend,
                        !.task[t].pend = <<>>,
                        !.task[t].pc = "f_set_run"])

\* the failure path without its write of the Run
FailedRunSet_Skipped(t) ==
    /\ At(t, "f_set_run")
    /\ CStep([CW EXCEPT !.task[t].pend = <<>>,
                        !.task[t].pc = "f_set_sess"])

FailedRunSet(t) ==
    /\ At(t, "f_set_run")
    /\ CStep([CW EXCEPT !.db.runStatus[task[t].orch] = "failed",
                        !.task[t].pend = <<>>,
                        !.task[t].pc = "f_set_sess"])

FailedSessionSet(t) ==
    /\ At(t, "f_set_sess")
    /\ CStep(Leave([CW EXCEPT !.db.sess = "failed"], t))

\* the CancelledError of Task.cancel is thrown into the coroutine at the
\* await it is suspended at: before its first step the coroutine never
\* runs; in the try body the except CancelledError clause takes it; in an
\* except clause, or in _execute after continue_run, nothing takes it
\* before _execute does
\* a delivery of CancelledError that the interrupted path of run would catch
\* in the except clauses too
CancelDelivered_CaughtInHandlers(t) ==
    /\ task[t].cancelReq
    /\ task[t].pc \notin {"none", "done"}
    /\ CStep(IF task[t].pc \in TryAwaits \cup HandlerAwaits
             THEN EnterInterrupted(CW, t)
             ELSE Finish(CW, t))

CancelDelivered(t) ==
    /\ task[t].cancelReq
    /\ task[t].pc \notin {"none", "done"}
    /\ CStep(IF task[t].pc \in TryAwaits
             THEN EnterInterrupted(CW, t)
             ELSE IF task[t].pc \in HandlerAwaits
             THEN Leave(CW, t)
             ELSE Finish(CW, t))

(***************************************************************************)
(* The requests of routes/sessions.py.                                     *)
(***************************************************************************)
NewRun ==
    CHOOSE r \in RunIds :
        db.runStatus[r] = "none" /\ \A q \in 1..(r - 1) : db.runStatus[q] # "none"

NewTask ==
    CHOOSE t \in TaskIds :
        task[t].kind = "none" /\ \A q \in 1..(t - 1) : task[q].kind # "none"

CreateTask(c, t, kind, o) ==
    [c EXCEPT !.task[t] = [NoTask EXCEPT !.kind = kind, !.orch = o,
                                         !.pc = "start"],
              !.reg.activeTask = t]

TriggerRun ==
    /\ quota.runs > 0
    /\ quota.total > 0
    /\ CBecome(CreateTask([CW EXCEPT !.db.runStatus[NewRun] = "pending",
                                     !.orch[NewRun] = NewOrchestrator,
                                     !.reg.runningOrch = NewRun],
                          NewTask, "run", NewRun))
    /\ quota' = [quota EXCEPT !.runs = @ - 1, !.total = @ - 1]
    /\ UNCHANGED <<toolVars, agVars, stop>>

\* without a registered orchestrator the request is refused with 400 and
\* its session is rolled back
SendMessage ==
    /\ quota.msgs > 0
    /\ quota.total > 0
    /\ reg.activeSession # 0
    /\ CBecome(CreateTask([CW EXCEPT !.db.messages = Append(@, "user")],
                          NewTask, "followup", reg.activeSession))
    /\ quota' = [quota EXCEPT !.msgs = @ - 1, !.total = @ - 1]
    /\ UNCHANGED <<toolVars, agVars, stop>>

\* Orchestrator.request_interrupt up to the await of destroy
RequestInterrupt(c, o) ==
    Publish([c EXCEPT !.orch[o].interrupted = TRUE,
                      !.task = [t \in TaskIds |->
                          IF /\ c.task[t].orch = o
                             /\ c.task[t].pc \notin {"none", "start", "done"}
                          THEN [c.task[t] EXCEPT !.intReq = TRUE]
                          ELSE c.task[t]]],
            o, <<StatusChange("orchestrator", "interrupt_requested")>>)

Destroy(c, o) ==
    IF c.orch[o].sandbox = "none" THEN c
    ELSE [c EXCEPT !.orch[o].sandbox = "destroyed"]

\* interrupt_active_run after request_interrupt: the registered task is
\* cancelled unless it is done
CancelTask(c) ==
    LET t == c.reg.activeTask IN
    IF t = 0 \/ c.task[t].pc = "done" THEN c
    ELSE [c EXCEPT !.task[t].cancelReq = TRUE,
                   !.task[t].cancelled = @ \/ c.task[t].pc # "start",
                   !.task[t].intReq = @ \/ c.task[t].pc # "start"]

\* stop_run where request_interrupt does not suspend: no orchestrator is
\* registered, it has no sandbox yet, or destroy is LocalSandbox.destroy
StopRun ==
    LET o == reg.runningOrch IN
    /\ quota.stops > 0
    /\ quota.total > 0
    /\ stop = 0
    /\ CBecome(CancelTask(IF o = 0 THEN CW
                          ELSE Destroy(RequestInterrupt(CW, o), o)))
    /\ quota' = [quota EXCEPT !.stops = @ - 1, !.total = @ - 1]
    /\ UNCHANGED <<toolVars, agVars, stop>>

\* stop_run where destroy is ModalSandbox.destroy, which suspends in
\* terminate; the sandbox may be gone before or after other tasks run
StopRunSuspends(gone) ==
    LET o == reg.runningOrch IN
    /\ quota.stops > 0
    /\ quota.total > 0
    /\ stop = 0
    /\ o # 0
    /\ orch[o].sandbox # "none"
    /\ CBecome(IF gone THEN Destroy(RequestInterrupt(CW, o), o)
               ELSE RequestInterrupt(CW, o))
    /\ stop' = o
    /\ quota' = [quota EXCEPT !.stops = @ - 1, !.total = @ - 1]
    /\ UNCHANGED <<toolVars, agVars>>

StopRunResumes ==
    /\ stop # 0
    /\ CBecome(CancelTask(Destroy(CW, stop)))
    /\ stop' = 0
    /\ UNCHANGED <<toolVars, agVars, quota>>

(***************************************************************************)
(* routes/events.py and events.py: one client of the session's stream.     *)
(***************************************************************************)
Replayed(e, id) ==
    [id |-> id, run |-> e.run, n |-> e.n, role |-> e.role, type |-> e.type,
     info |-> e.info, replayed |-> TRUE]

Live(e) ==
    [id |-> 0, run |-> e.run, n |-> e.n, role |-> e.role, type |-> e.type,
     info |-> e.info, replayed |-> FALSE]

Keepalive ==
    [id |-> 0, run |-> 0, n |-> 0, role |-> "none", type |-> "keepalive",
     info |-> "none", replayed |-> FALSE]

NoSubscriber ==
    [phase |-> "none", received |-> <<>>, queue |-> <<>>,
     mark |-> [r \in RunIds |-> 0]]

\* stream_events answers and generate starts
SubConnect ==
    /\ quota.connects > 0
    /\ sub.phase \in {"none", "closed"}
    /\ sub' = [NoSubscriber EXCEPT !.phase = "connected"]
    /\ quota' = [quota EXCEPT !.connects = @ - 1]
    /\ UNCHANGED <<toolVars, agVars, task, orch, db, reg, emitted, stop>>

\* the replay: get_replay_events reads the durable events in id order and
\* each is yielded
SubReplay ==
    /\ sub.phase = "connected"
    /\ sub' = [sub EXCEPT !.phase = "replayed",
                          !.received = [i \in 1..Len(db.events) |->
                                           Replayed(db.events[i], i)]]
    /\ UNCHANGED <<toolVars, agVars, task, orch, db, reg, emitted, stop, quota>>

\* EventBus.subscribe registers the queue; mark remembers how much each
\* run had published by then
SubSubscribe ==
    /\ sub.phase = "replayed"
    /\ sub' = [sub EXCEPT !.phase = "live",
                          !.mark = [r \in RunIds |-> Len(emitted[r])]]
    /\ UNCHANGED <<toolVars, agVars, task, orch, db, reg, emitted, stop, quota>>

SubReceive ==
    /\ sub.phase = "live"
    /\ sub.queue # <<>>
    /\ sub' = [sub EXCEPT !.received = Append(@, Live(Head(sub.queue))),
                          !.queue = Tail(@)]
    /\ UNCHANGED <<toolVars, agVars, task, orch, db, reg, emitted, stop, quota>>

\* 30 idle seconds: one keepalive, then the generator ends and finally
\* removes the queue
SubTimeout ==
    /\ sub.phase = "live"
    /\ sub.queue = <<>>
    /\ sub' = [sub EXCEPT !.received = Append(@, Keepalive),
                          !.phase = "closed"]
    /\ UNCHANGED <<toolVars, agVars, task, orch, db, reg, emitted, stop, quota>>

\* the client goes away
SubDisconnect ==
    /\ sub.phase \in {"connected", "replayed", "live"}
    /\ sub' = [NoSubscriber EXCEPT !.phase = "closed"]
    /\ UNCHANGED <<toolVars, agVars, task, orch, db, reg, emitted, stop, quota>>

CtlStart(q) ==
    /\ task = [t \in TaskIds |-> NoTask]
    /\ orch = [r \in RunIds |-> NewOrchestrator]
    /\ db = [runStatus |-> [r \in RunIds |-> "none"],
             runPr |-> [r \in RunIds |-> FALSE], sess |-> "pending",
             events |-> <<>>, messages |-> <<>>, artifacts |-> <<>>,
             files |-> {}]
    /\ reg = [activeSession |-> 0, activeTask |-> 0, runningOrch |-> 0]
    /\ emitted = [r \in RunIds |-> <<>>]
    /\ sub = NoSubscriber
    /\ stop = 0
    /\ quota = q

NoRequests ==
    [runs |-> 0, msgs |-> 0, stops |-> 0, connects |-> 0, total |-> 0,
     llm |-> 0]

AgentInit == ToolsIdle /\ AgInit /\ CtlStart(NoRequests)

AgentNext ==
    \/ AgentRun
    \/ AgentResume
    \/ \E a \in AgentIds : LlmReturns(a)
    \/ \E a \in AgentIds : LlmReturnsOpenFence(a)
    \/ \E a \in AgentIds : LlmRaises(a)
    \/ \E a \in AgentIds : HandlerReturns(a)
    \/ \E a \in AgentIds : HandlerRaises(a)
    \/ TaskCancelled
    \/ AgentInterrupt

AgentSpec == AgentInit /\ [][AgentNext]_vars

\* the path argument of the calls is drawn here; the calls apply the
\* operations to it
PathInit ==
    /\ \E p \in PathArgs : fsCall = [op |-> "none", path |-> p]
    /\ fsOutcome = "none"
    /\ fsIO = {}
    /\ VrIdle
    /\ gh = GhIdle
    /\ rc = NoCommand
    /\ bus = NoBus
    /\ cp = CpIdle
    /\ po = NoParse
    /\ AgInit
    /\ CtlStart(NoRequests)

PathNext ==
    \/ \E onDisk \in TargetKinds : ReadFile(onDisk)
    \/ WriteFile
    \/ ListDir

PathSpec == PathInit /\ [][PathNext]_vars

(***************************************************************************)
(* The container backend's file operations on every path argument, and     *)
(* run_command of either backend.                                          *)
(***************************************************************************)
BackendInit ==
    /\ \E p \in PathArgs : fsCall = [op |-> "none", path |-> p]
    /\ fsOutcome = "none"
    /\ fsIO = {}
    /\ VrIdle
    /\ gh = GhIdle
    /\ rc = NoCommand
    /\ bus = NoBus
    /\ cp = CpIdle
    /\ po = NoParse
    /\ AgInit
    /\ CtlStart(NoRequests)

BackendNext ==
    \/ \E returncode \in ExitCodes : ModalReadFile(returncode)
    \/ \E returncode \in ExitCodes : ModalWriteFile(returncode)
    \/ \E returncode \in ExitCodes : ModalListDir(returncode)
    \/ \E backend \in Backends : RunCommand(backend)
    \/ \E code \in ExitCodes : CommandExits(code)
    \/ CommandTimesOut

BackendSpec == BackendInit /\ [][BackendNext]_vars

ModalOps == {"modal.read_file", "modal.write_file", "modal.list_dir"}

\* C21: a run_command call that timed out has returned exit code -1 with
\* the timeout banner, and its process is not running any more.
C21_TimeoutKillsProcess ==
    (rc.pc = "done" /\ rc.timedOut)
        => /\ rc.result.exit_code = -1
           /\ rc.result.stderr = "Command timed out"
           /\ rc.proc # "running"

\* C23: a file operation of the container backend fails with a permission
\* error, before any remote exec, exactly when the local backend rejects
\* the same path argument.
C23_BackendsRejectSamePaths ==
    fsCall.op \in ModalOps
        => ((fsOutcome = "PermissionError" /\ fsIO = {})
               <=> LocalRejects(fsCall.path))

(***************************************************************************)
(* resume on every history of up to MaxTurns turns: a user turn holding a  *)
(* string, a user turn holding a list of tool results, an assistant turn.  *)
(***************************************************************************)
MaxTurns == 3

Turns ==
    {[role |-> "user", form |-> "str", items |-> <<Text("context")>>],
     [role |-> "user", form |-> "list",
      items |-> <<[type |-> "tool_result", id |-> 1]>>],
     [role |-> "user", form |-> "list", items |-> <<>>],
     [role |-> "assistant", form |-> "blocks",
      items |-> <<[type |-> "tool_use", name |-> "read_file", id |-> 1]>>]}

Histories == SeqsUpTo(Turns, MaxTurns)

ResumeInit ==
    /\ \E h \in Histories :
           ag = [a \in AgentIds |->
                    IF a = Top
                    THEN [FreshAgent("orchestrator") EXCEPT
                              !.messages = h, !.invocations = 1,
                              !.ended = "returned"]
                    ELSE FreshAgent("none")]
    /\ stream = <<>>
    /\ nextId = 1
    /\ ToolsIdle
    /\ CtlStart(NoRequests)

ResumeNext ==
    \/ AgentResume
    \/ LlmRaises(Top)

ResumeSpec == ResumeInit /\ [][ResumeNext]_vars

FollowUpTurn ==
    [role |-> "user", form |-> "str", items |-> <<Text("followup")>>]

\* C25: resume on a history whose last turn is an assistant turn appends a
\* user turn holding exactly the message; on a history whose last turn is a
\* user turn it appends the message to that turn, which stays a list or a
\* string, and adds no turn; the earlier turns are unchanged.
C25_ResumeExtendsHistory ==
    [][(ag'[Top].invocations = ag[Top].invocations + 1 /\ ag[Top].invocations >= 1)
        => LET old == ag[Top].messages
               new == ag'[Top].messages
               n   == Len(old) IN
           IF n > 0 /\ old[n].role = "user"
           THEN /\ Len(new) = n
                /\ \A i \in 1..(n - 1) : new[i] = old[i]
                /\ new[n] = [old[n] EXCEPT
                                !.items = Append(@, Text("followup"))]
           ELSE new = Append(old, FollowUpTurn)]_vars

\* a resume on a history that ended with an assistant turn has added the
\* user turn
C25_Witness ==
    LET m == ag[Top].messages IN
    /\ ag[Top].invocations = 2
    /\ Len(m) = 3
    /\ m[2].role = "assistant"
    /\ m[3] = FollowUpTurn

(***************************************************************************)
(* The delete_file handlers on every path argument.                        *)
(***************************************************************************)
DeleteInit ==
    /\ \E p \in PathArgs : fsCall = [op |-> "none", path |-> p]
    /\ fsOutcome = "none"
    /\ fsIO = {}
    /\ VrIdle
    /\ gh = GhIdle
    /\ rc = NoCommand
    /\ bus = NoBus
    /\ cp = CpIdle
    /\ po = NoParse
    /\ AgInit
    /\ CtlStart(NoRequests)

DeleteNext ==
    \/ \E exists \in BOOLEAN : ImplementerDelete(exists)
    \/ \E exists \in BOOLEAN : DeleteFile(exists)

DeleteSpec == DeleteInit /\ [][DeleteNext]_vars

(***************************************************************************)
(* The EventBus with its publishers and subscribers.                       *)
(***************************************************************************)
BusInit ==
    /\ FsInit
    /\ VrIdle
    /\ gh = GhIdle
    /\ rc = NoCommand
    /\ bus = NoBus
    /\ cp = CpIdle
    /\ po = NoParse
    /\ AgInit
    /\ CtlStart(NoRequests)

BusNext ==
    \/ \E sid \in Sessions : BusPublish(sid)
    \/ \E q \in QueueIds, sid \in Sessions : Subscribe(q, sid)
    \/ \E q \in QueueIds : QueueGet(q)
    \/ \E q \in QueueIds : NextAsked(q)
    \/ \E q \in QueueIds : GetTimesOut(q)
    \/ \E q \in QueueIds : KeepaliveEnds(q)
    \/ \E q \in QueueIds : GeneratorClosed(q)

BusSpec == BusInit /\ [][BusNext]_vars

\* the events a generator has yielded, its keepalive left out
Delivered(g) == SelectSeq(g.yielded, LAMBDA e : e.type = "event")

\* what a generator yields is, in order and without repetition, the events
\* published to its own session while its queue was listed
InPublishOrder(g) ==
    /\ \A i \in 1..Len(g.due) : g.due[i].session = g.session
    /\ Len(Delivered(g)) <= Len(g.due)
    /\ \A i \in 1..Len(Delivered(g)) : Delivered(g)[i] = g.due[i]

\* C35: a subscriber is delivered, once each and in publish order, the
\* events published to its session while its queue was registered, and
\* nothing else; a subscriber whose generator ended by itself, not ended by
\* its consumer, has been delivered all of them.
C35_RegisteredEventsDelivered ==
    \A q \in QueueIds :
        /\ InPublishOrder(bus.gen[q])
        /\ (bus.gen[q].pc = "done" /\ ~bus.gen[q].closed)
               => Delivered(bus.gen[q]) = bus.gen[q].due


(***************************************************************************)
(* The verifier's run_command on every command of Commands.                *)
(***************************************************************************)
VerifierInit ==
    /\ \E c \in Commands : vrCall = [command |-> c, state |-> "pending"]
    /\ vrResult = NoResult
    /\ vrSpawned = <<>>
    /\ FsInit
    /\ gh = GhIdle
    /\ rc = NoCommand
    /\ bus = NoBus
    /\ cp = CpIdle
    /\ po = NoParse
    /\ AgInit
    /\ CtlStart(NoRequests)

VerifierNext == \E exit \in ExitCodes : VerifierRun(exit)

VerifierSpec == VerifierInit /\ [][VerifierNext]_vars

\* the command, stripped and lower-cased, matches a forbidden pattern
ForbiddenCommand(command) ==
    \E n \in 1..NumPatterns : PatternMatches(n, Lower(Strip(command)))

\* C12: a command whose stripped, lower-cased form matches a forbidden
\* pattern gets the rejection with exit code 2 and the provider's
\* run_command is not called; any other command is passed unchanged to the
\* provider, once, with a timeout of 120 seconds.
C12_ForbiddenCommandsNotRun ==
    vrCall.state = "done"
        => IF ForbiddenCommand(vrCall.command)
           THEN /\ vrResult = Rejection
                /\ vrResult.exit_code = 2
                /\ vrSpawned = <<>>
           ELSE vrSpawned = <<[command |-> vrCall.command, timeout |-> 120]>>

\* a forbidden command written with an upper-case letter and white space
\* around it has been rejected
C12_Witness ==
    /\ vrCall.state = "done"
    /\ ForbiddenCommand(vrCall.command)
    /\ Strip(vrCall.command) # vrCall.command
    /\ Lower(vrCall.command) # vrCall.command
    /\ vrResult = Rejection

(***************************************************************************)
(* create_pr, with every outcome of the commands it runs and of the API.   *)
(***************************************************************************)
GhInit ==
    /\ \E a \in PrArgs : gh = [GhIdle EXCEPT !.pc = "rev_parse", !.args = a]
    /\ FsInit
    /\ VrIdle
    /\ rc = NoCommand
    /\ bus = NoBus
    /\ cp = CpIdle
    /\ po = NoParse
    /\ AgInit
    /\ CtlStart(NoRequests)

GhNext ==
    \/ \E exit \in ExitCodes, b \in Branches :
           \E stdout \in Printed(b) \cup {<<>>} : RevParse(exit, stdout)
    \/ \E b \in Branches : \E stdout \in LsRemoteOutputs(b) : LsRemote(stdout)
    \/ \E exit \in ExitCodes : Push(exit)
    \/ \E ok \in BOOLEAN : CreatePull(ok)

GhSpec == GhInit /\ [][GhNext]_vars

\* C13: the pull request is created only for a branch that the
\* remote-heads check printed something for or that create_pr pushed with
\* exit code 0, and create_pr raises without contacting the API when the
\* branch could not be determined or the push failed.
C13_PullOnlyForRemoteBranch ==
    /\ gh.pulls # <<>> =>
           /\ gh.listed \/ gh.pushed
           /\ \A i \in 1..Len(gh.pulls) :
                  \E k \in 1..Len(gh.commands) :
                      gh.commands[k] = <<"ls-remote", gh.pulls[i].head>>
           /\ gh.pushed =>
                  gh.commands[Len(gh.commands)] = <<"push", gh.pulls[1].head>>
    /\ (gh.pc = "done" /\ ~(gh.listed \/ gh.pushed)) =>
           gh.outcome = "RuntimeError" /\ gh.pulls = <<>>

\* the branch was not listed, create_pr pushed it and then created the pull
\* request
C13_Witness ==
    /\ gh.outcome = "created"
    /\ ~gh.listed
    /\ gh.pushed
    /\ Len(gh.pulls) = 1

(***************************************************************************)
(* The controller under requests: Spec has the session's runs, follow-ups  *)
(* and stops and no stream client.                                         *)
(***************************************************************************)
TaskNext(t) ==
    \/ TaskStart(t)
    \/ SetRunRunning(t)
    \/ SetSessionRunning(t)
    \/ SandboxCreated(t)
    \/ SandboxCreateFails(t)
    \/ UserMessagePersisted(t)
    \/ TaskLlmFinal(t)
    \/ \E spawn \in BOOLEAN : TaskLlmToolUse(t, spawn)
    \/ TaskLlmRaises(t)
    \/ TaskToolDone(t)
    \/ BatchPersisted(t)
    \/ \E changed, pr \in BOOLEAN : DiffReturned(t, changed, pr)
    \/ DiffRaises(t)
    \/ \E pr \in BOOLEAN : ArtifactPersisted(t, pr)
    \/ PrRecorded(t)
    \/ SetRunCompleted(t)
    \/ SetSessionCompleted(t)
    \/ MessageSaved(t)
    \/ InterruptedPersisted(t)
    \/ InterruptedRunSet(t)
    \/ InterruptedSessionSet(t)
    \/ ErrorPersisted(t)
    \/ FailedRunSet(t)
    \/ FailedSessionSet(t)
    \/ CancelDelivered(t)

Init ==
    /\ ToolsIdle
    /\ AgInit
    /\ CtlStart([runs |-> MaxRuns, msgs |-> MaxMsgs, stops |-> MaxStops,
                 connects |-> 0, total |-> MaxRequests,
                 llm |-> MaxResponses])

Next ==
    \/ TriggerRun
    \/ SendMessage
    \/ StopRun
    \/ \E gone \in BOOLEAN : StopRunSuspends(gone)
    \/ StopRunResumes
    \/ \E t \in TaskIds : TaskNext(t)

Spec == Init /\ [][Next]_vars

(***************************************************************************)
(* The controller with a client of the event stream: StreamSpec has one    *)
(* run, one follow-up and one stop of the session, and the connections of  *)
(* the client.                                                             *)
(***************************************************************************)
StreamInit ==
    /\ ToolsIdle
    /\ AgInit
    /\ CtlStart([runs |-> StreamRequests, msgs |-> StreamRequests,
                 stops |-> StreamRequests,
                 connects |-> MaxConnects, total |-> MaxRequests,
                 llm |-> MaxResponses])

StreamNext ==
    \/ TriggerRun
    \/ SendMessage
    \/ StopRun
    \/ \E gone \in BOOLEAN : StopRunSuspends(gone)
    \/ StopRunResumes
    \/ \E t \in TaskIds : TaskNext(t)
    \/ SubConnect
    \/ SubReplay
    \/ SubSubscribe
    \/ SubReceive
    \/ SubTimeout
    \/ SubDisconnect

StreamSpec == StreamInit /\ [][StreamNext]_vars


\* C4: a path whose canonical form leaves the workspace makes read_file,
\* write_file and list_dir fail with a permission error before any filesystem
\* access.
Escapes(p) == ~IsRelativeTo(Canonical(PathJoin(Workspace, p)), Workspace)

C4_EscapeRejected ==
    (fsCall.op # "none" /\ Escapes(fsCall.path))
        => (fsOutcome = "PermissionError" /\ fsIO = {})

\* C24: the implementer's delete_file tool, given a path that resolves
\* outside the workspace, touches nothing on the filesystem and ends in an
\* error.
C24_DeleteStaysInWorkspace ==
    (fsCall.op = "implementer.delete_file" /\ Escapes(fsCall.path))
        => (fsIO = {} /\ fsOutcome # "ok")

(***************************************************************************)
(* commit_and_push on every commit message.                                *)
(***************************************************************************)
CommitInit ==
    /\ FsInit
    /\ VrIdle
    /\ gh = GhIdle
    /\ rc = NoCommand
    /\ bus = NoBus
    /\ po = NoParse
    /\ \E message \in Messages :
          cp = [CpIdle EXCEPT !.pc = "config_email", !.message = message]
    /\ AgInit
    /\ CtlStart(NoRequests)

CommitNext ==
    \/ \E exit \in ExitCodes : GitConfig(exit)
    \/ \E exit \in ExitCodes : GitAdd(exit)
    \/ \E exit \in ExitCodes : GitCommit(exit)
    \/ \E exit \in ExitCodes, b \in Branches :
          \E stdout \in Printed(b) : BranchRead(exit, stdout)
    \/ \E exit \in ExitCodes : GitPush(exit)
    \/ \E exit \in ExitCodes : ShaRead(exit)

CommitSpec == CommitInit /\ [][CommitNext]_vars

Failed(step) == step.ran /\ step.exit_code # 0

\* C38: commit_and_push gives a result with status pushed only when git
\* commit and git push both exited with 0; once either has exited with
\* another code the call is over with an error, whatever the commit
\* message.
C38_PushedOnlyAfterCommitAndPush ==
    /\ cp.outcome = "pushed"
          => /\ cp.commit.ran /\ cp.commit.exit_code = 0
             /\ cp.push.ran /\ cp.push.exit_code = 0
    /\ (Failed(cp.commit) \/ Failed(cp.push))
          => (cp.pc = "done" /\ cp.outcome = "RuntimeError")

(***************************************************************************)
(* _parse_output on every text.                                            *)
(***************************************************************************)
ParseInit ==
    /\ FsInit
    /\ VrIdle
    /\ gh = GhIdle
    /\ rc = NoCommand
    /\ bus = NoBus
    /\ cp = CpIdle
    /\ \E text \in Texts : po = [NoParse EXCEPT !.text = text]
    /\ AgInit
    /\ CtlStart(NoRequests)

ParseNext == ParseFinalText

ParseSpec == ParseInit /\ [][ParseNext]_vars

\* the fenced json block of a text, when it has one that is closed
HasBlock(text) ==
    /\ Contains(text, FenceJson)
    /\ IndexFrom(text, Fence, IndexFrom(text, FenceJson, 1) + 7) # 0

BlockOf(text) ==
    SubSeq(text, IndexFrom(text, FenceJson, 1) + 7,
           IndexFrom(text, Fence, IndexFrom(text, FenceJson, 1) + 7) - 1)

\* C37: parsing a final text never raises and gives a map: the parsed
\* fenced json block when there is one and it is valid JSON, otherwise the
\* parsed text when the whole text is valid JSON, otherwise the text
\* wrapped as summary; the empty text gives the summary of the empty text.
C37_ParsingTotal ==
    po.pc = "done"
        => /\ po.out.raised = "none"
           /\ po.out.value.type = "dict"
           /\ po.out.value =
                 IF HasBlock(po.text) /\ JsonLoads(BlockOf(po.text)).ok
                 THEN JsonLoads(BlockOf(po.text))
                 ELSE IF JsonLoads(po.text).ok THEN JsonLoads(po.text)
                 ELSE [ok |-> TRUE, type |-> "dict",
                       of |-> <<"summary">> \o po.text]

(***************************************************************************)
(* Claims about the executor, checked under AgentSpec.                     *)
(***************************************************************************)
IsToolCall(e) == e.type = "tool_call"

IsCompleted(e) == e.type = "status_change" /\ e.info = "completed"

ResultFollows(evs, k) ==
    \E j \in (k + 1)..Len(evs) :
        evs[j].type = "tool_result" /\ evs[j].id = evs[k].id

HandlerPending(id) ==
    \E a \in AgentIds :
        /\ ag[a].pc = "handler"
        /\ Head(ag[a].blocks).id = id

RunCancelled == \E a \in AgentIds : ag[a].ended = "cancelled"

\* C1: every tool_call event, of the orchestrator agent or of a nested
\* sub-agent, is followed in its agent's buffer and in the callback's stream
\* by a tool_result event with the same id, unless its handler is still
\* running or the run was cancelled; unknown tools and raising handlers
\* included.
C1_ToolCallsPaired ==
    /\ \A a \in AgentIds : \A k \in 1..Len(ag[a].events) :
          IsToolCall(ag[a].events[k]) =>
              \/ ResultFollows(ag[a].events, k)
              \/ HandlerPending(ag[a].events[k].id)
              \/ ag[a].ended = "cancelled"
    /\ \A k \in 1..Len(stream) :
          IsToolCall(stream[k]) =>
              \/ ResultFollows(stream, k)
              \/ HandlerPending(stream[k].id)
              \/ RunCancelled

\* the orchestrator agent returned after a spawned sub-agent's decision-maker
\* call raised, a handler raised and an unknown tool was named
C1_Witness ==
    /\ ag[Top].pc = "idle"
    /\ ag[Top].ended = "returned"
    /\ ag[Sub].ended = "exception"
    /\ \E k \in 1..Len(ag[Top].events) :
          /\ IsToolCall(ag[Top].events[k])
          /\ ag[Top].events[k].info = "run_implementer"
          /\ \E j \in (k + 1)..Len(ag[Top].events) :
                /\ ag[Top].events[j].type = "tool_result"
                /\ ag[Top].events[j].id = ag[Top].events[k].id
                /\ ag[Top].events[j].info = "Error"

Completions(a) ==
    Cardinality({k \in 1..Len(ag[a].events) : IsCompleted(ag[a].events[k])})

CompletedOnceLast(a) ==
    /\ Completions(a) = 1
    /\ IsCompleted(ag[a].events[Len(ag[a].events)])

Ended(a) == ag[a].pc = "idle" /\ ag[a].ended \notin {"none", "running"}

EndedByInterruption(a) ==
    \/ ag[a].ended = "cancelled"
    \/ ag[a].ended = "returned" /\ ag[a].interrupted

\* C26: an invocation of the orchestrator agent that was in progress with
\* the interrupted flag set, and that returns, returns the result
\* `interrupted`.
C26_InterruptedResult ==
    [][(/\ ag[Top].interrupted
        /\ ag[Top].pc # "idle"
        /\ ag'[Top].pc = "idle"
        /\ ag'[Top].ended = "returned")
           => ag'[Top].output = "interrupted"]_vars

\* the tool_call events of `complete` in the current invocation's events
CompleteCalls(a) ==
    {i \in 1..Len(ag[a].events) :
        ag[a].events[i].type = "tool_call" /\ ag[a].events[i].info = "complete"}

LastOf(S) == CHOOSE i \in S : \A j \in S : j <= i

\* C28: once the complete handler has run in an invocation of the
\* orchestrator agent, the decision-maker is not called again in that
\* invocation, and when the invocation returns its last event is
\* orchestrator_completed and its result is the arguments of the last
\* complete call.
C28_CompleteEndsInvocation ==
    CompleteCalls(Top) # {}
        => /\ ag[Top].pc # "llm"
           /\ (ag[Top].pc = "idle" /\ ag[Top].ended = "returned")
                  => /\ IsCompleted(ag[Top].events[Len(ag[Top].events)])
                     /\ ag[Top].output = "complete"
                     /\ ag[Top].resultOf =
                            ag[Top].events[LastOf(CompleteCalls(Top))].id

\* an invocation has returned after two complete calls in one response
C28_Witness ==
    /\ Cardinality(CompleteCalls(Top)) = 2
    /\ ag[Top].pc = "idle"
    /\ ag[Top].ended = "returned"
    /\ ag[Top].output = "complete"

\* the tool_result events with an `Error:` text that a step adds to the
\* events of agent a
NewErrors(a) ==
    {k \in 1..Len(ag'[a].events) :
        /\ k > Len(ag[a].events)
        /\ ag'[a].events[k].type = "tool_result"
        /\ ag'[a].events[k].info = "Error"}

\* the tool-result entry for id is in the list being built for the next
\* user turn, or in the user turn appended last
HasEntry(me, id) ==
    \/ \E i \in 1..Len(me.toolResults) : me.toolResults[i].id = id
    \/ /\ me.messages # <<>>
       /\ LET last == me.messages[Len(me.messages)] IN
          /\ last.role = "user"
          /\ last.form = "list"
          /\ \E i \in 1..Len(last.items) :
                 last.items[i] = [type |-> "tool_result", id |-> id]

\* C29: a step in which a handler raises or an unregistered tool is named
\* emits a tool_result with an `Error:` text after the tool_call of the same
\* id, puts the entry with that id into the next user turn, and does not
\* end the invocation with the exception: the loop goes on to the next
\* decision-maker call or handler, or ends at its loop test.
C29_ToolErrorsTolerated ==
    [][\A a \in AgentIds : \A k \in NewErrors(a) :
          LET me == ag'[a]
              id == me.events[k].id IN
          /\ \E j \in 1..(k - 1) :
                 IsToolCall(me.events[j]) /\ me.events[j].id = id
          /\ HasEntry(me, id)
          /\ \/ me.pc \in {"llm", "handler"}
             \/ me.pc = "idle" /\ me.ended \in {"returned", "cap"}]_vars

\* after a block that ended in an error the orchestrator agent is at its
\* next decision-maker call, the entry in the user turn just appended
C29_Witness ==
    /\ ag[Top].pc = "llm"
    /\ ag[Top].iterations = 2
    /\ \E k \in 1..Len(ag[Top].events) :
          /\ ag[Top].events[k].type = "tool_result"
          /\ ag[Top].events[k].info = "Error"
          /\ HasEntry([ag[Top] EXCEPT !.toolResults = <<>>],
                      ag[Top].events[k].id)

\* C19: while its interrupted flag is set, an agent's loop gets at most one
\* answer of the decision-maker and calls at most one tool handler.
C19_AtMostOneMoreStep ==
    \A a \in AgentIds :
        /\ ag[a].sinceFlag.answers <= 1
        /\ ag[a].sinceFlag.handlers <= 1

\* C10 as stated: an invocation that ends neither by interruption nor at the
\* cap emits exactly one <role>_completed event, last; one that ends by
\* interruption or at the cap emits none.
C10_AsStated ==
    \A a \in AgentIds : Ended(a) =>
        IF EndedByInterruption(a) \/ ag[a].ended = "cap"
        THEN Completions(a) = 0
        ELSE CompletedOnceLast(a)

\* C10 (amended): an invocation that returns without reaching the cap, also
\* when it stops because the interrupted flag was set, emits exactly one
\* <role>_completed event, as its last event; an invocation that ends at the
\* cap, by an exception of the decision-maker call or by cancellation of the
\* task emits none, and none is emitted while the invocation is in progress.
C10_CompletedOncePerReturn ==
    \A a \in AgentIds :
        /\ (Ended(a) /\ ag[a].ended = "returned") => CompletedOnceLast(a)
        /\ (ag[a].ended \in {"running", "cap", "exception", "cancelled"})
               => Completions(a) = 0

\* an invocation stopped by the interrupted flag has returned
C10_Witness ==
    /\ Ended(Top)
    /\ ag[Top].ended = "returned"
    /\ ag[Top].output = "interrupted"
    /\ CompletedOnceLast(Top)

\* the invocation of agent a is over after the last permitted
\* decision-maker call, whose response had a tool-use block
EndedAtLastIteration(a) ==
    /\ Ended(a)
    /\ ag[a].ended \in {"returned", "cap"}
    /\ ag[a].iterations = IterCap(ag[a].role)
    /\ ag[a].hasToolUse

ErrorEvents(a) ==
    Cardinality({k \in 1..Len(ag[a].events) : ag[a].events[k].type = "error"})

\* C30: an invocation that has made max_iterations decision-maker calls,
\* each response with a tool-use block, without a complete call and without
\* an interrupt, emits exactly one error event and no <role>_completed
\* event and returns max_iterations_reached; with a complete call in the
\* last iteration it returns normally with that result.
C30_CapReported ==
    \A a \in AgentIds :
        EndedAtLastIteration(a)
            => IF CompleteCalls(a) # {}
               THEN /\ ag[a].ended = "returned"
                    /\ ag[a].output = "complete"
                    /\ CompletedOnceLast(a)
                    /\ ErrorEvents(a) = 0
               ELSE ~ag[a].interrupted
                       => /\ ag[a].ended = "cap"
                          /\ ag[a].output = "max_iterations_reached"
                          /\ ErrorEvents(a) = 1
                          /\ Completions(a) = 0

\* the orchestrator agent's invocation ended at the cap
C30_Witness ==
    /\ EndedAtLastIteration(Top)
    /\ CompleteCalls(Top) = {}
    /\ ~ag[Top].interrupted
    /\ ag[Top].ended = "cap"
    /\ ErrorEvents(Top) = 1

\* iterations is incremented (line 114) before every decision-maker call
\* (line 125) and nowhere else, so it counts the calls of the invocation
CallsWithinCap ==
    \A a \in AgentIds : ag[a].iterations <= IterCap(ag[a].role)

\* a step that leaves the sub-agent's invocation in progress, its start
\* included, leaves the parent's iteration count alone
SubWithinOneIteration ==
    ag'[Sub].pc # "idle" => ag'[Top].iterations = ag[Top].iterations

\* a step that begins an invocation of the orchestrator agent leaves it at
\* its first decision-maker call, or over without any
FreshCount ==
    ag'[Top].invocations = ag[Top].invocations + 1
        => ag'[Top].iterations = IF ag'[Top].pc = "llm" THEN 1 ELSE 0

\* what is left of the invocation of agent a: the iterations not yet begun,
\* and within the current one the response awaited or the blocks not yet
\* processed
Remaining(me) ==
    (IterCap(me.role) - me.iterations) * (MaxBlocks + 2)
        + IF me.pc = "llm" THEN MaxBlocks + 1 ELSE Len(me.blocks)

\* a step in which a decision-maker call or a handler comes back to an
\* invocation that goes on leaves less of it, or leaves less of the
\* sub-agent's invocation that it awaits
Progress ==
    (/\ ag[Top].pc # "idle" /\ ag'[Top].pc # "idle"
     /\ ag'[Top].interrupted = ag[Top].interrupted)
        => \/ Remaining(ag'[Top]) < Remaining(ag[Top])
           \/ /\ Remaining(ag'[Top]) = Remaining(ag[Top])
              /\ ag[Sub].pc # "idle" /\ ag'[Sub].pc # "idle"
              /\ Remaining(ag'[Sub]) < Remaining(ag[Sub])

\* C31: every run or resume of an agent makes at most max_iterations
\* decision-maker calls, and every call or handler that comes back brings
\* the invocation nearer to its end (Remaining never goes below zero); a
\* sub-agent's whole run happens inside one iteration of its parent, and a
\* resume counts its iterations from zero.
C31_BoundedInvocation ==
    /\ [](CallsWithinCap /\ \A a \in AgentIds : Remaining(ag[a]) >= 0)
    /\ [][SubWithinOneIteration /\ FreshCount /\ Progress]_vars

\* a resume of the orchestrator agent used all its iterations, one of them
\* holding a sub-agent run that used all of its own
C31_Witness ==
    /\ ag[Top].invocations = 2
    /\ ag[Top].ended = "cap"
    /\ ag[Top].iterations = OrchIterCap
    /\ ag[Sub].ended = "cap"
    /\ ag[Sub].iterations = SubIterCap

\* the events of the orchestrator agent (the parent) and of sub-agents
IsParent(e) == e.role = "orchestrator"

IsSpawnCall(e) ==
    IsParent(e) /\ IsToolCall(e) /\ e.info \in SpawnTools("orchestrator")

\* the last event of the parent before position k
ParentBefore(k) ==
    LastOf({j \in 1..(k - 1) : IsParent(stream[j])})

\* the parent events after position k with sub-agent events only in between
NextParent(k) ==
    {n \in (k + 1)..Len(stream) :
        /\ IsParent(stream[n])
        /\ \A m \in (k + 1)..(n - 1) : ~IsParent(stream[m])}

\* C32: in the order in which events reach the shared callback (which
\* publishes them to the session's subscribers), the parent's tool_call
\* event of a spawning tool is followed at once by the sub-agent's started
\* event under the sub-agent's role; every sub-agent event comes after the
\* parent's tool_call event of its spawn with no parent event between the
\* two, and the next parent event after it is the tool_result event with
\* that call's id.
C32_SubAgentBracketed ==
    /\ \A j \in 1..Len(stream) :
          IsSpawnCall(stream[j])
              => /\ j < Len(stream)
                 /\ stream[j + 1] = Event(SubRole(stream[j].info),
                                          "status_change", "started", 0)
    /\ \A k \in 1..Len(stream) :
          ~IsParent(stream[k])
              => /\ \E j \in 1..(k - 1) : IsParent(stream[j])
                 /\ IsSpawnCall(stream[ParentBefore(k)])
                 /\ stream[k].role = SubRole(stream[ParentBefore(k)].info)
                 /\ \A n \in NextParent(k) :
                       /\ stream[n].type = "tool_result"
                       /\ stream[n].id = stream[ParentBefore(k)].id

\* a sub-agent's run with a tool call of its own, closed by the parent's
\* tool_result event
C32_Witness ==
    \E j, k \in 1..Len(stream) :
        /\ j + 4 < k
        /\ IsSpawnCall(stream[j])
        /\ \A m \in (j + 1)..(k - 1) : ~IsParent(stream[m])
        /\ \E m \in (j + 1)..(k - 1) : IsToolCall(stream[m])
        /\ IsParent(stream[k])
        /\ stream[k].type = "tool_result"
        /\ stream[k].id = stream[j].id

\* the invocation of the orchestrator agent that is over processed the
\* whole of its last response
LastResponseProcessed ==
    /\ ag[Top].pc = "idle"
    /\ ag[Top].ended \in {"returned", "cap"}
    /\ ag[Top].iterations >= 1
    /\ ~ag[Top].interrupted
    /\ ag[Top].response # <<>>

\* C33: when a follow-up resumes the orchestrator agent, the history holds
\* every turn it held before, the previous invocation's last response as
\* an assistant turn (also a response without a tool-use block), and after
\* it the user turn with the new message.
C33_HistoryKeepsFinalResponse ==
    [][(LastResponseProcessed
          /\ ag'[Top].invocations = ag[Top].invocations + 1)
        => LET m  == ag[Top].messages
               m1 == ag'[Top].messages
           IN  /\ Len(m1) >= Len(m)
               /\ \A k \in 1..(Len(m) - 1) : m1[k] = m[k]
               /\ Len(m1) >= 2
               /\ m1[Len(m1) - 1].role = "assistant"
               /\ m1[Len(m1) - 1].items = ag[Top].response
               /\ m1[Len(m1)].role = "user"
               /\ \E i \in 1..Len(m1[Len(m1)].items) :
                     m1[Len(m1)].items[i] = Text("followup")]_vars

\* the tool-result blocks of turn k answer tool-use blocks of turn k - 1
ResultsAnswerCalls(m, k) ==
    \A i \in 1..Len(m[k].items) :
        m[k].items[i].type = "tool_result"
            => /\ k > 1
               /\ \E j \in 1..Len(m[k - 1].items) :
                     /\ m[k - 1].items[j].type = "tool_use"
                     /\ m[k - 1].items[j].id = m[k].items[i].id

WellFormed(m) ==
    /\ Len(m) % 2 = 1
    /\ \A k \in 1..Len(m) :
          /\ m[k].role = IF k % 2 = 1 THEN "user" ELSE "assistant"
          /\ m[k].role = "user" => ResultsAnswerCalls(m, k)

\* C34: while a decision-maker call of any agent is in progress, in a run
\* or in a resume, the history it was given begins and ends with a user
\* turn, alternates between user and assistant turns, and every
\* tool-result block of a user turn has the id of a tool-use block of the
\* assistant turn before it.
C34_HistoryWellFormed ==
    \A a \in AgentIds : ag[a].pc = "llm" => WellFormed(ag[a].messages)

\* a decision-maker call of a resume whose history ends with a user turn
\* that holds tool results and the follow-up text
C34_Witness ==
    LET m == ag[Top].messages IN
    /\ ag[Top].pc = "llm"
    /\ ag[Top].invocations = 2
    /\ Len(m) >= 3
    /\ \E i, j \in 1..Len(m[Len(m)].items) :
          /\ m[Len(m)].items[i].type = "tool_result"
          /\ m[Len(m)].items[j] = Text("followup")

(***************************************************************************)
(* Claims about the controller, checked under Spec.                        *)
(***************************************************************************)
Terminal == {"completed", "failed"}

\* the task is inside run or continue_run
Executing(t) == task[t].pc \in TryAwaits \cup HandlerAwaits

\* the task is inside _loop of its orchestrator's agent
InLoop(t) == task[t].pc \in {"llm", "tool"}

\* no task is left to write a status and no stop request is in flight
Quiescent == stop = 0 /\ \A t \in TaskIds : task[t].pc \in {"none", "done"}

\* C2: once a stop has been accepted for a task that had begun to execute,
\* the Run and Session statuses end at completed or failed: when that task
\* is over and nothing else is running, neither status is left at pending
\* or running.
C2_StoppedRunEndsTerminal ==
    \A t \in TaskIds :
        (Quiescent /\ task[t].cancelled)
            => /\ db.runStatus[task[t].orch] \in Terminal
               /\ db.sess \in Terminal

\* C3: a task of a run for which interruption was requested (by
\* request_interrupt or by cancelling the task) ends having emitted the
\* controller's interrupted event and no completed event, with Run and
\* Session persisted as completed.
C3_InterruptEndsInterrupted ==
    \A t \in TaskIds :
        (Quiescent /\ task[t].intReq)
            => /\ \E i \in 1..Len(task[t].term) : task[t].term[i] = "interrupted"
               /\ \A i \in 1..Len(task[t].term) : task[t].term[i] # "completed"
               /\ db.runStatus[task[t].orch] = "completed"
               /\ db.sess = "completed"

\* the durable records of event k of run r
Records(r, k) ==
    {i \in 1..Len(db.events) : db.events[i].run = r /\ db.events[i].n = k}

\* C5: once the batch of a returned agent loop has been persisted, every
\* event published for the run so far has exactly one durable record, and
\* the records of the run are in emission order.
C5_PublishedEventsDurable ==
    \A t \in TaskIds :
        task[t].pc = "get_diff"
            => /\ \A k \in 1..Len(emitted[task[t].orch]) :
                      Cardinality(Records(task[t].orch, k)) = 1
               /\ \A i, j \in 1..Len(db.events) :
                      (i < j /\ db.events[i].run = db.events[j].run)
                          => db.events[i].n < db.events[j].n

\* C14: the durable events of a run have ids that increase in emission
\* order, and no event of another run has an id between two of them.
C14_RunEventIdsContiguous ==
    \A i, j \in 1..Len(db.events) :
        (i < j /\ db.events[i].run = db.events[j].run)
            => /\ db.events[i].n < db.events[j].n
               /\ \A k \in (i + 1)..(j - 1) :
                      db.events[k].run = db.events[i].run

\* the task ended with the `interrupted` event as its last terminal event
EndedInterrupted(t) ==
    /\ task[t].pc = "done"
    /\ task[t].term # <<>>
    /\ task[t].term[Len(task[t].term)] = "interrupted"

\* C16: once an initial run has been interrupted and its Run has its
\* terminal status, an orchestrator is registered for the session, so that a follow-up message
\* starts continue_run.
C16_InterruptedSessionResumable ==
    \A t \in TaskIds :
        (/\ task[t].kind = "run"
         /\ EndedInterrupted(t)
         /\ db.runStatus[task[t].orch] = "completed")
            => reg.activeSession # 0

\* C17: the `interrupted` event of a run is the last event published for
\* that run.
C17_NothingAfterInterrupted ==
    \A r \in RunIds :
        \A i \in 1..Len(emitted[r]) :
            emitted[r][i].info = "interrupted" => i = Len(emitted[r])

\* C18: a task that a stop interrupted, of an initial run or of a
\* follow-up, ends with the orchestrator's interrupted flag set and with no
\* sandbox left alive, once no stop request is still suspended in destroy.
C18_StopDestroysSandbox ==
    \A t \in TaskIds :
        (EndedInterrupted(t) /\ stop = 0)
            => /\ orch[task[t].orch].interrupted
               /\ orch[task[t].orch].sandbox # "alive"

\* C20: when nothing is running, a file is under artifacts_dir exactly if
\* an Artifact record names it.
C20_ArtifactFileIffRecord ==
    Quiescent
        => \A f \in [run : RunIds, name : {"changes", "changes_followup"}] :
               f \in db.files
                   <=> \E i \in 1..Len(db.artifacts) : db.artifacts[i] = f

\* the Run that was the last to begin executing
LastStarted == CHOOSE r \in RunIds :
    /\ db.runStatus[r] \notin {"none", "pending"}
    /\ \A q \in RunIds : q > r => db.runStatus[q] \in {"none", "pending"}

\* C22: when no task is executing and a run of the session has begun to
\* execute, the Session's status is terminal and equal to the status of the
\* Run that began last.
C22_SessionMirrorsLastRun ==
    (Quiescent /\ \E r \in RunIds : db.runStatus[r] \notin {"none", "pending"})
        => /\ db.sess \in Terminal
           /\ db.sess = db.runStatus[LastStarted]

\* C27: once a stop request has reached an orchestrator whose agent
\* exists, the agent's own interrupted flag is set and its client is closed.
C27_StopReachesExecutor ==
    \A o \in RunIds :
        (orch[o].interrupted /\ orch[o].agent)
            => (orch[o].agentInterrupted /\ orch[o].clientClosed)

\* no stop request has been made in the session
NoStopRequested == quota.stops = MaxStops

ErrorEvent(o, n) ==
    [run |-> o, n |-> n, role |-> "orchestrator", type |-> "error",
     info |-> "exception"]

\* the steps of task t from an exception in the try body to its end
FailureHandled(t) ==
    LET o == task[t].orch IN
    /\ (task[t].pc \in TryAwaits /\ task'[t].pc \in HandlerAwaits)
          => /\ task'[t].pc = IF task[t].kind = "run" THEN "f_persist"
                              ELSE "f_set_run"
             /\ emitted'[o] =
                    Append(emitted[o], ErrorEvent(o, Len(emitted[o]) + 1))
    /\ (task[t].pc = "f_persist" /\ task'[t].pc # "f_persist")
          => /\ task'[t].pc = "f_set_run"
             /\ \E i \in 1..Len(db'.events) :
                   db'.events[i] = ErrorEvent(o, Len(emitted[o]))
    /\ (task[t].pc = "f_set_run" /\ task'[t].pc # "f_set_run")
          => /\ task'[t].pc = "f_set_sess"
             /\ db'.runStatus[o] = "failed"
    /\ (task[t].pc = "f_set_sess" /\ task'[t].pc # "f_set_sess")
          => /\ task'[t].pc = "done"
             /\ db'.sess = "failed"

\* task t is over after an exception and no other task has written to the
\* store since it began: there is none, or t is the follow-up of the run
\* whose end registered its orchestrator
EndedFailedAlone(t) ==
    /\ task[t].pc = "done"
    /\ task[t].term = <<"error">>
    /\ \A u \in TaskIds \ {t} :
          \/ task[u].kind = "none"
          \/ /\ task[t].kind = "followup"
             /\ task[u].kind = "run"
             /\ task[u].orch = task[t].orch
             /\ task[u].pc = "done"

\* C36: as long as no stop has been requested, an exception raised at an
\* await of the try body of run or of continue_run (sandbox creation, the
\* decision-maker call, the diff) is followed by the error event, then by
\* the write of failed to the Run and to the Session, and the task ends
\* there; a task that ended so with no other task at work leaves the Run
\* and the Session failed.
C36_ExceptionMarksFailed ==
    /\ [][NoStopRequested' => \A t \in TaskIds : FailureHandled(t)]_vars
    /\ [](\A t \in TaskIds :
            (NoStopRequested /\ EndedFailedAlone(t))
                => /\ db.runStatus[task[t].orch] = "failed"
                   /\ db.sess = "failed")

\* a follow-up whose decision-maker call raised is over
C36_Witness ==
    \E t \in TaskIds :
        /\ NoStopRequested
        /\ EndedFailedAlone(t)
        /\ task[t].kind = "followup"
        /\ db.sess = "failed"

\* C39: an orchestrator registered in _active_sessions, the registry read by
\* get_active_orchestrator for follow-up messages, has a sandbox that was
\* not destroyed, whatever the interleaving of a stop request with the
\* completion of the run.
C39_RegisteredSandboxAlive ==
    reg.activeSession # 0 => orch[reg.activeSession].sandbox # "destroyed"

\* the events that a step appends to the events of orchestrator o
NewEvents(o) == SubSeq(emitted'[o], Len(emitted[o]) + 1, Len(emitted'[o]))

\* the event of request_interrupt, which the stop request emits, not run
InterruptRequested(e) ==
    /\ e.role = "orchestrator"
    /\ e.type = "status_change"
    /\ e.info = "interrupt_requested"

\* inside run: the coroutine has started and is not over
InsideRun(t) ==
    task[t].kind = "run" /\ task[t].pc \notin {"none", "start", "done"}

\* C40: an invocation of Orchestrator.run emits exactly one of status_change
\* completed, status_change interrupted and error, wherever an exception or
\* a cancellation reaches it, and emits no event once it has emitted that one:
\* never more than one, exactly one when the coroutine is over, and between
\* the terminal event and the end of the coroutine the only events of its
\* orchestrator are those of request_interrupt.
C40_OneTerminalEvent ==
    /\ [](\A t \in TaskIds : task[t].kind = "run" => Len(task[t].term) <= 1)
    /\ [][\A t \in TaskIds :
            InsideRun(t) =>
                /\ task'[t].pc = "done" => Len(task'[t].term) = 1
                /\ task[t].term # <<>> =>
                       \A i \in 1..Len(NewEvents(task[t].orch)) :
                           InterruptRequested(NewEvents(task[t].orch)[i])]_vars

\* a run that failed with an exception, emitted error, and was cancelled at
\* an await of its except clause
C40_Witness ==
    \E t \in TaskIds :
        /\ task[t].kind = "run"
        /\ task[t].pc = "done"
        /\ task[t].term = <<"error">>
        /\ task[t].cancelled
        /\ db.sess # "failed"

\* C8: at most one task is inside run or continue_run at any moment.
C8_AtMostOneActiveTask ==
    Cardinality({t \in TaskIds : Executing(t)}) <= 1

\* C9: at most one task is inside the loop of the same agent at any
\* moment, so that a resume never starts while a run or resume of that
\* agent is in progress.
C9_OneLoopPerAgent ==
    \A o \in RunIds :
        Cardinality({t \in TaskIds : task[t].orch = o /\ InLoop(t)}) <= 1

\* C11: a task whose agent ended at the iteration cap, and that was not
\* interrupted, leaves the Run and the Session failed.
C11_CapMarksFailed ==
    \A t \in TaskIds :
        (Quiescent /\ task[t].result = "max_iterations" /\ ~task[t].intReq)
            => /\ db.runStatus[task[t].orch] = "failed"
               /\ db.sess = "failed"

(***************************************************************************)
(* Claims about the event stream, checked under StreamSpec.                *)
(***************************************************************************)
IsEvent(x) == x.type # "keepalive"

SameEvent(x, y) == x.run = y.run /\ x.n = y.n

NumReplayed ==
    Cardinality({i \in 1..Len(sub.received) : sub.received[i].replayed})

\* C6: a client whose subscription is registered has received in its
\* replay every event that was published before the registration.
C6_NoGapBeforeSubscription ==
    sub.phase = "live"
        => \A r \in RunIds : \A k \in 1..sub.mark[r] :
               \E i \in 1..Len(sub.received) :
                   /\ sub.received[i].replayed
                   /\ sub.received[i].run = r
                   /\ sub.received[i].n = k

\* C7: what the client has received starts with the durable records that
\* existed at its replay read, each once, in id order and tagged replayed;
\* what follows is untagged, holds no event of the replay again and no
\* event twice.
C7_ReplayOnceThenLiveNoDuplicates ==
    /\ NumReplayed <= Len(db.events)
    /\ \A i \in 1..Len(sub.received) :
           IF i <= NumReplayed
           THEN sub.received[i] = Replayed(db.events[i], i)
           ELSE ~sub.received[i].replayed
    /\ \A i, j \in 1..Len(sub.received) :
           (i < j /\ j > NumReplayed /\ IsEvent(sub.received[i])
                  /\ IsEvent(sub.received[j]))
               => ~SameEvent(sub.received[i], sub.received[j])

\* a client that was given a replay, then received live an event that has a
\* durable record by now
C7_Witness ==
    /\ sub.phase = "live"
    /\ NumReplayed > 0
    /\ \E i \in 1..Len(sub.received) :
           /\ ~sub.received[i].replayed
           /\ IsEvent(sub.received[i])
           /\ Records(sub.received[i].run, sub.received[i].n) # {}

\* C15: a stream that has yielded a keepalive goes on: its queue is still
\* registered with the EventBus.
C15_KeepaliveThenContinues ==
    (\E i \in 1..Len(sub.received) : sub.received[i] = Keepalive)
        => Registered(sub)

====
